---------------------------- MODULE Spec2Model ----------------------------
(***************************************************************************)
(* Model of the 3D scene state synchronisation of the BIM viewer:          *)
(*   - Viewer3D (components/datalab/Viewer3D.tsx): the operation table     *)
(*     (selectElements, hideElements, showElements, isolateElements,       *)
(*     setXrayMode, setDisplayMode, fitToView), the original-colour        *)
(*     ledger, the synchronisation effects and the bring-up / teardown;    *)
(*   - ModelViewerPage (viewer/page.tsx): the ViewerState and its          *)
(*     handlers.                                                           *)
(*                                                                         *)
(* Strings are sequences of tokens, "#" being the separator the code       *)
(* splits and joins on.  Colours are triples in thousandths; the JS null   *)
(* ("no override") is the empty tuple.  The rendering engine is external:  *)
(* an engine object is a record of the fields the code reads and writes,   *)
(* and a scene-level batch mutator changes the field of the objects it is  *)
(* handed, which is how the code uses it.                                  *)
(***************************************************************************)
EXTENDS Integers, Sequences, FiniteSets, TLC

(***************************************************************************)
(* Bounds of the model.                                                    *)
(***************************************************************************)
MaxEngines == 2
MaxRuns == 2
MaxIds == 2

(***************************************************************************)
(* Strings.                                                                *)
(***************************************************************************)
Hash == "#"
ModelId == <<"m1">>
OtherModelId == <<"m2">>
ElA == <<"A">>
ElB == <<"B">>
ElC == <<"C">>
ElD == <<"D">>

\* `${modelId}#${elementId}`
CompositeKey(modelId, elementId) == modelId \o <<Hash>> \o elementId

\* key.endsWith(suffix)
EndsWith(key, suffix) ==
    /\ Len(suffix) <= Len(key)
    /\ SubSeq(key, Len(key) - Len(suffix) + 1, Len(key)) = suffix

\* key.startsWith(prefix)
StartsWith(key, prefix) ==
    /\ Len(prefix) <= Len(key)
    /\ SubSeq(key, 1, Len(prefix)) = prefix

\* position of the last "#" of a string, 0 when there is none
LastHash(s) ==
    LET P == {i \in 1..Len(s) : s[i] = Hash}
    IN IF P = {} THEN 0 ELSE CHOOSE i \in P : \A j \in P : j <= i

\* s.split('#').pop()
SplitPop(s) == SubSeq(s, LastHash(s) + 1, Len(s))

\* a derivation that takes the text before the first '#'
PickedElementIdFirst(entityId) ==
    LET P == {i \in 1..Len(entityId) : entityId[i] = Hash}
    IN IF P = {} THEN entityId
       ELSE SubSeq(entityId, 1, (CHOOSE i \in P : \A j \in P : i <= j) - 1)

\* entityId.split('#').pop() || entityId   (an empty last segment is falsy)
PickedElementId(entityId) ==
    IF SplitPop(entityId) = <<>> THEN entityId ELSE SplitPop(entityId)

\* array.includes(x)
Includes(seq, x) == \E i \in 1..Len(seq) : seq[i] = x

\* array.filter(y => y !== x)
RECURSIVE Without(_, _)
Without(seq, x) ==
    IF seq = <<>> THEN <<>>
    ELSE IF Head(seq) = x THEN Without(Tail(seq), x)
         ELSE <<Head(seq)>> \o Without(Tail(seq), x)

Range(seq) == {seq[i] : i \in 1..Len(seq)}

(***************************************************************************)
(* Colours.                                                                *)
(***************************************************************************)
NullColor == <<>>
BlueColor == <<230, 510, 960>>
GrayColor == <<500, 500, 500>>
Tolerance == 10

Abs(x) == IF x < 0 THEN -x ELSE x

\* Math.abs(c[i] - blueColor[i]) < 0.01 for the three components
IsBlueColor(c) ==
    /\ Len(c) >= 3
    /\ Abs(c[1] - BlueColor[1]) < Tolerance
    /\ Abs(c[2] - BlueColor[2]) < Tolerance
    /\ Abs(c[3] - BlueColor[3]) < Tolerance


(***************************************************************************)
(* State.                                                                  *)
(***************************************************************************)
VARIABLES
    \* the rendering engine (external): instances and their scene registry
    engineStatus,       \* engine id -> "none" | "live" | "destroyed"
    sceneReady,         \* engine id -> scene and scene.canvas exist
    sceneKeys,          \* engine id -> keys of scene.objects, in Object.keys order
    sceneObjects,       \* engine id -> [key -> engine object]
    caps,               \* the capability surface of the engine build
    \* Viewer3D: refs and state
    viewerRef,          \* viewerRef.current: 0 (null) or an engine id
    modelRef,           \* modelRef.current: 0 (null) or the engine holding the model
    previouslySelectedEntities,   \* previouslySelectedEntitiesRef.current
    originalColors,     \* originalColorsRef.current: entity id -> saved colour
    opThrew,            \* the last operation-table call or effect raised
    lastCall,           \* the last operation-table call: [op, arg, ran]
    loading,            \* useState loading
    error,              \* useState error: "none" or the kind of the message
    metadata,           \* useState metadata is set
    \* Viewer3D: the init effect; one run of initViewer per effect execution
    mounted,            \* the component is mounted (containerRef.current is set)
    runPc,              \* run -> where initViewer of that run stands
    runMounted,         \* run -> its isMounted flag
    runEngine,          \* run -> its viewerInstance (0: not created)
    runAttempts,        \* run -> attempts of waitForViewerReady
    runSetup,           \* run -> setupClickHandler: "none" | "awaiting" | "registered"
    isCtrlPressed,      \* run -> its isCtrlPressed flag
    listeners,          \* runs whose keydown/keyup/mousedown listeners are attached
    canvasOwner,        \* the run whose canvas is in the container (0: none)
    \* ModelViewerPage (the ViewerState) = the props of Viewer3D
    selectedElementId,
    selectedElementIds,
    hiddenElementIds,
    isolatedElementIds,
    xrayMode,
    displayMode,
    pageViewerRef,      \* page's viewerRef.current is the operation table
    pageMetadata,       \* page's metadata is loaded
    dirty,              \* synchronisation effects whose dependencies changed
    \* observation of the run
    late,               \* what a cancelled run of initViewer did after its teardown
    calls,              \* callbacks invoked: <<name, run>>
    e2e,                \* progress of the click scenario since load
    snap                \* viewer-side state when the scenario started

engineVars == <<engineStatus, sceneReady, sceneKeys, sceneObjects, caps>>
refVars == <<viewerRef, modelRef>>
ledgerVars == <<previouslySelectedEntities, originalColors, opThrew, lastCall>>
statusVars == <<loading, error, metadata>>
runVars == <<mounted, runPc, runMounted, runEngine, runAttempts, runSetup,
             listeners, canvasOwner>>
inputVars == <<isCtrlPressed>>
pageVars == <<selectedElementId, selectedElementIds, hiddenElementIds,
              isolatedElementIds, xrayMode, displayMode, pageViewerRef,
              pageMetadata, dirty>>
obsVars == <<late, calls, e2e, snap>>
vars == <<engineVars, refVars, ledgerVars, statusVars, runVars, inputVars,
          pageVars, obsVars>>

\* everything an operation-table call leaves alone
opFrame == <<engineStatus, sceneReady, sceneKeys, caps, refVars, statusVars,
             runVars, inputVars>>

EngineIds == 1..MaxEngines
RunIds == 1..MaxRuns

(***************************************************************************)
(* The engine surface.                                                     *)
(***************************************************************************)
\* an engine object as the loader creates it, with colour override c
NewObject(c) ==
    [colorize |-> c, visible |-> TRUE, selected |-> FALSE, xrayed |-> FALSE,
     edges |-> TRUE, highlighted |-> FALSE]

\* the documented surface of the engine the component is written against
FullCaps(repr) ==
    [colorizeKind |-> "prop", colorizeReadable |-> TRUE, colorRepr |-> repr,
     highlightedProp |-> TRUE, visibleKind |-> "prop",
     setObjectsSelected |-> TRUE, setObjectsColorized |-> TRUE,
     setObjectsVisible |-> TRUE, setObjectsXRayed |-> TRUE,
     setObjectsEdges |-> TRUE, setObjectsHighlighted |-> TRUE]

\* scene.objects[key] is defined
HasKey(keys, key) == Includes(keys, key)

\* a handle is <<engine id, key>>; entity.id is the key
EntityId(h) == h[2]

WriteColor(objs, h, c) == [objs EXCEPT ![h[1]][h[2]].colorize = c]

RECURSIVE WriteColorAll(_, _, _)
WriteColorAll(objs, hs, c) ==
    IF hs = <<>> THEN objs
    ELSE WriteColorAll(WriteColor(objs, Head(hs), c), Tail(hs), c)

RECURSIVE SetSelectedAll(_, _, _)
SetSelectedAll(objs, hs, b) ==
    IF hs = <<>> THEN objs
    ELSE SetSelectedAll([objs EXCEPT ![Head(hs)[1]][Head(hs)[2]].selected = b],
                        Tail(hs), b)

\* Object.values(scene.objects)
AllObjects(e) == [i \in 1..Len(sceneKeys[e]) |-> <<e, sceneKeys[e][i]>>]

(***************************************************************************)
(* Id resolution.                                                          *)
(***************************************************************************)
\* Object.keys(scene.objects).find(key => key.endsWith('#' + id) || key === id)
FindMatchingKey(keys, elementId) ==
    LET M == {i \in 1..Len(keys) :
                 EndsWith(keys[i], <<Hash>> \o elementId) \/ keys[i] = elementId}
    IN IF M = {} THEN <<>>
       ELSE <<keys[CHOOSE i \in M : \A j \in M : i <= j]>>

\* a lookup that tries the bare key before the composite key
ResolveEntityBareFirst(keys, modelId, elementId) ==
    IF HasKey(keys, elementId) THEN <<elementId>>
    ELSE IF HasKey(keys, CompositeKey(modelId, elementId))
    THEN <<CompositeKey(modelId, elementId)>>
    ELSE <<>>

\* the lookup of selectElements and hideElements for one element id:
\* the keys found (none or one)
ResolveEntity(keys, modelId, elementId) ==
    IF HasKey(keys, CompositeKey(modelId, elementId))
    THEN <<CompositeKey(modelId, elementId)>>
    ELSE IF HasKey(keys, elementId) THEN <<elementId>>
    ELSE FindMatchingKey(keys, elementId)

\* a lookup of a batch that gives up on the whole batch at the first miss
ResolveAllStrict(e, elementIds) ==
    IF \E i \in 1..Len(elementIds) :
           ResolveEntity(sceneKeys[e], ModelId, elementIds[i]) = <<>>
    THEN <<>>
    ELSE [i \in 1..Len(elementIds) |->
             <<e, ResolveEntity(sceneKeys[e], ModelId, elementIds[i])[1]>>]

\* elementIds.forEach(... entitiesToSelect.push(entity))
RECURSIVE ResolveAll(_, _)
ResolveAll(e, elementIds) ==
    IF elementIds = <<>> THEN <<>>
    ELSE LET found == ResolveEntity(sceneKeys[e], ModelId, Head(elementIds))
         IN (IF found = <<>> THEN <<>> ELSE <<<<e, found[1]>>>>)
            \o ResolveAll(e, Tail(elementIds))

(***************************************************************************)
(* The original-colour ledger and selectElements.                          *)
(* The viewer-side state an operation works on is the record               *)
(*   [objects, ledger, prev, threw].                                       *)
(***************************************************************************)
EmptyLedger == [k \in {} |-> NullColor]

\* the record of an operation-table call: its name, the shape of its argument
\* and whether it ran past its readiness check
NoCall == [op |-> "none", arg |-> "none", ran |-> FALSE]

ListArg(elementIds) == IF elementIds = <<>> THEN "empty" ELSE "ids"

Called(vs, op, arg, ran) ==
    [vs EXCEPT !.last = [op |-> op, arg |-> arg, ran |-> ran]]

LedgerSet(ledger, id, c) ==
    [k \in DOMAIN ledger \cup {id} |-> IF k = id THEN c ELSE ledger[k]]

\* a delete that leaves the record in place
LedgerDeleteKeep(ledger, id) == ledger

LedgerDelete(ledger, id) == [k \in DOMAIN ledger \ {id} |-> ledger[k]]

\* getEntityColor: the probe of the current colour
GetEntityColor(obj) ==
    LET currentColor ==
            IF caps.colorizeKind = "prop" THEN obj.colorize
            ELSE IF caps.colorizeKind = "fn" /\ caps.colorizeReadable
                 THEN obj.colorize
                 ELSE NullColor
    IN IF /\ currentColor # NullColor
          /\ caps.colorRepr = "array"       \* Array.isArray(currentColor)
          /\ IsBlueColor(currentColor)
       THEN NullColor
       ELSE currentColor

\* a capture that stores the probed colour as it is
ColorToSaveRaw(originalColor) == originalColor

\* the value selectElements stores for a probed colour
ColorToSave(originalColor) ==
    IF originalColor # NullColor /\ IsBlueColor(originalColor)
    THEN NullColor
    ELSE originalColor

\* a restore that writes nothing
RestoreEntityColorSkip(objs, h, originalColor) == objs

\* restoreEntityColor(entity, originalColor)
RestoreEntityColor(objs, h, originalColor) ==
    LET perEntity == caps.colorizeKind \in {"fn", "prop"}
        batch == viewerRef # 0 /\ caps.setObjectsColorized
    IN IF originalColor = NullColor
       THEN (IF perEntity \/ batch THEN WriteColor(objs, h, NullColor) ELSE objs)
       ELSE (IF perEntity \/ batch THEN WriteColor(objs, h, originalColor) ELSE objs)

\* previouslySelected.forEach: restore, and delete the record that was used
RECURSIVE RestoreLoop(_, _)
RestoreLoop(vs, rest) ==
    IF rest = <<>> THEN vs
    ELSE LET h == Head(rest)
             id == EntityId(h)
         IN IF id \in DOMAIN vs.ledger
            THEN RestoreLoop(
                   [vs EXCEPT !.objects = RestoreEntityColor(@, h, vs.ledger[id]),
                              !.ledger = LedgerDelete(@, id)],
                   Tail(rest))
            ELSE RestoreLoop(
                   [vs EXCEPT !.objects = RestoreEntityColor(@, h, NullColor)],
                   Tail(rest))

\* the colour write of selectElements for one entity (first method that exists)
ApplyHighlight(objs, h) ==
    IF caps.colorizeKind \in {"fn", "prop"} THEN WriteColor(objs, h, BlueColor)
    ELSE IF caps.highlightedProp
         THEN [objs EXCEPT ![h[1]][h[2]].highlighted = TRUE]
    ELSE IF caps.setObjectsColorized THEN WriteColor(objs, h, BlueColor)
    ELSE objs

\* a capture that writes the record every time
CaptureAlways(vs, h) ==
    [vs EXCEPT !.ledger = LedgerSet(@, EntityId(h),
                              ColorToSave(GetEntityColor(vs.objects[h[1]][h[2]]))),
               !.objects = ApplyHighlight(@, h)]

\* save the original colour if none is saved yet, then set the highlight colour
CaptureAndHighlight(vs, h) ==
    LET id == EntityId(h)
        saved == IF id \in DOMAIN vs.ledger THEN vs.ledger
                 ELSE LedgerSet(vs.ledger, id,
                                ColorToSave(GetEntityColor(vs.objects[h[1]][h[2]])))
    IN [vs EXCEPT !.ledger = saved, !.objects = ApplyHighlight(@, h)]

\* a loop that captures and highlights the first entity only
CaptureLoopFirst(vs, rest) ==
    IF rest = <<>> THEN vs ELSE CaptureAndHighlight(vs, Head(rest))

RECURSIVE CaptureLoop(_, _)
CaptureLoop(vs, rest) ==
    IF rest = <<>> THEN vs
    ELSE CaptureLoop(CaptureAndHighlight(vs, Head(rest)), Tail(rest))

\* a deselection that restores the colours and leaves the selected flags
DeselectPreviousColorsOnly(vs) ==
    IF Len(vs.prev) = 0 THEN vs ELSE RestoreLoop(vs, vs.prev)

\* lines 564-606: deselect and restore the previous selection
DeselectPrevious(vs) ==
    IF Len(vs.prev) = 0 THEN vs
    ELSE IF ~caps.setObjectsSelected THEN [vs EXCEPT !.threw = TRUE]
    ELSE RestoreLoop([vs EXCEPT !.objects = SetSelectedAll(@, vs.prev, FALSE)],
                     vs.prev)

\* lines 660-809: select, capture and highlight the resolved entities
SelectNew(vs, ents) ==
    IF Len(ents) = 0 THEN [vs EXCEPT !.prev = <<>>]
    ELSE IF ~caps.setObjectsSelected THEN [vs EXCEPT !.threw = TRUE]
    ELSE LET s1 == CaptureLoop(
                     [vs EXCEPT !.objects = SetSelectedAll(@, ents, TRUE)], ents)
             s2 == IF caps.setObjectsColorized
                   THEN [s1 EXCEPT !.objects = WriteColorAll(@, ents, BlueColor)]
                   ELSE s1
         IN [s2 EXCEPT !.prev = ents]

\* selectElements(elementIds)
SelectElementsOp(vs, elementIds) ==
    IF viewerRef = 0 \/ modelRef = 0
    THEN Called(vs, "selectElements", ListArg(elementIds), FALSE)
    ELSE LET s1 == DeselectPrevious(
                     Called(vs, "selectElements", ListArg(elementIds), TRUE))
         IN IF s1.threw THEN s1
            ELSE SelectNew([s1 EXCEPT !.prev = <<>>],
                           ResolveAll(viewerRef, elementIds))

(***************************************************************************)
(* Visibility, isolation and display operations.                           *)
(***************************************************************************)
\* the per-entity chain visible / setVisible / culled / setCulled and the
\* batch scene.setObjectsVisible, for the handles hs
RECURSIVE SetVisibleAll(_, _, _)
SetVisibleAll(objs, hs, b) ==
    IF hs = <<>> THEN objs
    ELSE SetVisibleAll([objs EXCEPT ![Head(hs)[1]][Head(hs)[2]].visible = b],
                       Tail(hs), b)

\* a setter that inverts the visibility of the handles instead of setting it
SetVisibleFlip(objs, hs, b) ==
    [e \in DOMAIN objs |->
        [k \in DOMAIN objs[e] |->
            IF <<e, k>> \in Range(hs)
            THEN [objs[e][k] EXCEPT !.visible = ~@]
            ELSE objs[e][k]]]

SetVisible(objs, hs, b) ==
    IF caps.visibleKind # "none" \/ caps.setObjectsVisible
    THEN SetVisibleAll(objs, hs, b)
    ELSE objs

RECURSIVE SetFlagAll(_, _, _, _)
SetFlagAll(objs, hs, flag, b) ==
    IF hs = <<>> THEN objs
    ELSE LET h == Head(hs)
             o == objs[h[1]][h[2]]
             o2 == IF flag = "xrayed" THEN [o EXCEPT !.xrayed = b]
                   ELSE IF flag = "edges" THEN [o EXCEPT !.edges = b]
                   ELSE [o EXCEPT !.highlighted = b]
         IN SetFlagAll([objs EXCEPT ![h[1]][h[2]] = o2], Tail(hs), flag, b)

\* the filter of a handle list by a predicate on the handle's object
RECURSIVE FilterSelected(_, _, _)
FilterSelected(objs, hs, want) ==
    IF hs = <<>> THEN <<>>
    ELSE (IF objs[Head(hs)[1]][Head(hs)[2]].selected = want
          THEN <<Head(hs)>> ELSE <<>>)
         \o FilterSelected(objs, Tail(hs), want)

\* re-apply the highlight colour: scene.setObjectsColorized, else per entity
ReBlueOrColorize(objs, hs) ==
    IF hs = <<>> THEN objs
    ELSE IF caps.setObjectsColorized THEN WriteColorAll(objs, hs, BlueColor)
    ELSE IF caps.colorizeKind \in {"fn", "prop"}
         THEN WriteColorAll(objs, hs, BlueColor)
    ELSE objs

\* re-apply the highlight colour: scene.setObjectsColorized, else
\* scene.setObjectsHighlighted
ReBlueOrHighlight(objs, hs) ==
    IF hs = <<>> THEN objs
    ELSE IF caps.setObjectsColorized THEN WriteColorAll(objs, hs, BlueColor)
    ELSE IF caps.setObjectsHighlighted THEN SetFlagAll(objs, hs, "highlighted", TRUE)
    ELSE objs

\* a hide that also takes the hidden objects out of the engine's selection
HideElementsDeselect(vs, elementIds) ==
    LET v == Called(vs, "hideElements", ListArg(elementIds), TRUE)
        ents == ResolveAll(viewerRef, elementIds)
        hidden == SetVisible(v.objects, ents, FALSE)
    IN [v EXCEPT !.objects =
           [e \in DOMAIN hidden |->
               [k \in DOMAIN hidden[e] |->
                   IF <<e, k>> \in Range(ents)
                   THEN [hidden[e][k] EXCEPT !.selected = FALSE]
                   ELSE hidden[e][k]]]]

\* hideElements(elementIds)
HideElementsOp(vs, elementIds) ==
    IF viewerRef = 0 \/ modelRef = 0
    THEN Called(vs, "hideElements", ListArg(elementIds), FALSE)
    ELSE LET v == Called(vs, "hideElements", ListArg(elementIds), TRUE)
             ents == ResolveAll(viewerRef, elementIds)
         IN IF Len(ents) > 0
            THEN [v EXCEPT !.objects = SetVisible(@, ents, FALSE)]
            ELSE v

\* showElements(elementIds); the model.objects fallback of its lookup reads
\* the same registry entries as the scene lookup
ShowElementsOp(vs, elementIds) ==
    IF viewerRef = 0 \/ modelRef = 0
    THEN Called(vs, "showElements", ListArg(elementIds), FALSE)
    ELSE LET v == Called(vs, "showElements", ListArg(elementIds), TRUE)
             ents == ResolveAll(viewerRef, elementIds)
             shown == SetVisible(v.objects, ents, TRUE)
         IN IF Len(ents) > 0
            THEN [v EXCEPT !.objects =
                     ReBlueOrColorize(shown, FilterSelected(shown, ents, TRUE))]
            ELSE v

\* the lookup of isolateElements: the composite key only
RECURSIVE ResolveComposite(_, _)
ResolveComposite(e, elementIds) ==
    IF elementIds = <<>> THEN <<>>
    ELSE (IF HasKey(sceneKeys[e], CompositeKey(ModelId, Head(elementIds)))
          THEN <<<<e, CompositeKey(ModelId, Head(elementIds))>>>> ELSE <<>>)
         \o ResolveComposite(e, Tail(elementIds))

\* isolateElements(elementIds); iso = [isNull, ids]
IsolateElementsOp(vs, iso) ==
    LET arg == IF iso.isNull THEN "null" ELSE ListArg(iso.ids)
    IN IF viewerRef = 0 \/ modelRef = 0
       THEN Called(vs, "isolateElements", arg, FALSE)
       ELSE LET v == Called(vs, "isolateElements", arg, TRUE)
                all == AllObjects(viewerRef)
                selectedArray == FilterSelected(v.objects, all, TRUE)
            IN IF iso.isNull
               THEN [v EXCEPT !.objects =
                        ReBlueOrHighlight(SetVisible(@, all, TRUE), selectedArray)]
               ELSE LET ents == ResolveComposite(viewerRef, iso.ids)
                        hidden == SetVisible(v.objects, all, FALSE)
                        shown == SetVisible(hidden, ents, TRUE)
                    IN IF Len(ents) > 0
                       THEN [v EXCEPT !.objects =
                                ReBlueOrColorize(shown,
                                    FilterSelected(shown, ents, TRUE))]
                       ELSE [v EXCEPT !.objects = hidden]

\* an x-ray switch that reaches the selected objects only
SetXrayModeSelectedOnly(vs, enabled) ==
    LET arg == IF enabled THEN "on" ELSE "off"
    IN IF viewerRef = 0 \/ modelRef = 0
       THEN Called(vs, "setXrayMode", arg, FALSE)
       ELSE LET v == Called(vs, "setXrayMode", arg, TRUE)
            IN [v EXCEPT !.objects =
                   SetFlagAll(@, FilterSelected(@, AllObjects(viewerRef), TRUE),
                              "xrayed", enabled)]

\* setXrayMode(enabled)
SetXrayModeOp(vs, enabled) ==
    LET arg == IF enabled THEN "on" ELSE "off"
    IN IF viewerRef = 0 \/ modelRef = 0
       THEN Called(vs, "setXrayMode", arg, FALSE)
       ELSE LET v == Called(vs, "setXrayMode", arg, TRUE)
                all == AllObjects(viewerRef)
                flagged == IF caps.setObjectsXRayed
                           THEN SetFlagAll(v.objects, all, "xrayed", enabled)
                           ELSE IF caps.setObjectsHighlighted
                           THEN SetFlagAll(v.objects, all, "highlighted", enabled)
                           ELSE v.objects
            IN IF enabled THEN [v EXCEPT !.objects = flagged]
               ELSE [v EXCEPT !.objects =
                        ReBlueOrHighlight(flagged,
                            FilterSelected(flagged, all, TRUE))]

\* a mode switch that tints every object, the selected ones included
SetDisplayModeTintAll(vs, mode) ==
    IF viewerRef = 0 \/ modelRef = 0
    THEN Called(vs, "setDisplayMode", mode, FALSE)
    ELSE LET v == Called(vs, "setDisplayMode", mode, TRUE)
             all == AllObjects(viewerRef)
         IN [v EXCEPT !.objects =
                WriteColorAll(SetFlagAll(@, all, "edges", mode = "wireframe"), all,
                              IF mode = "wireframe" THEN GrayColor ELSE NullColor)]

\* setDisplayMode(mode)
SetDisplayModeOp(vs, mode) ==
    IF viewerRef = 0 \/ modelRef = 0
    THEN Called(vs, "setDisplayMode", mode, FALSE)
    ELSE LET v == Called(vs, "setDisplayMode", mode, TRUE)
             all == AllObjects(viewerRef)
             selectedArray == FilterSelected(v.objects, all, TRUE)
             nonSelected == FilterSelected(v.objects, all, FALSE)
             edged == IF caps.setObjectsEdges
                      THEN SetFlagAll(v.objects, all, "edges", mode = "wireframe")
                      ELSE v.objects
             tinted == IF caps.setObjectsColorized
                       THEN WriteColorAll(edged, nonSelected,
                                IF mode = "wireframe" THEN GrayColor
                                ELSE NullColor)
                       ELSE edged
         IN [v EXCEPT !.objects = ReBlueOrHighlight(tinted, selectedArray)]

\* fitToView(): moves the camera only
FitToViewOp(vs) ==
    IF viewerRef = 0 \/ modelRef = 0
    THEN Called(vs, "fitToView", "none", FALSE)
    ELSE Called(vs, "fitToView", "none", TRUE)

(***************************************************************************)
(* Lifting of the operations to the state.                                 *)
(***************************************************************************)
Cur ==
    [objects |-> sceneObjects, ledger |-> originalColors,
     prev |-> previouslySelectedEntities, threw |-> FALSE, last |-> lastCall]

Commit(vs) ==
    /\ sceneObjects' = vs.objects
    /\ originalColors' = vs.ledger
    /\ previouslySelectedEntities' = vs.prev
    /\ opThrew' = vs.threw
    /\ lastCall' = vs.last

\* an operation-table call made through the page's viewerRef.current
ViaRef(vs, result) == IF pageViewerRef /\ ~vs.threw THEN result ELSE vs

(***************************************************************************)
(* Synchronisation effects of Viewer3D (lines 1550-1622), in the order     *)
(* they are declared; d is the set of effects whose dependencies changed.  *)
(***************************************************************************)
SelectionEffect(vs) ==
    IF viewerRef = 0 \/ modelRef = 0 THEN vs
    ELSE SelectElementsOp(vs, selectedElementIds)

\* objects of the current model (key starts with "<modelId>#") whose element
\* id is, or is not, in hiddenElementIds
RECURSIVE PartitionByHidden(_, _, _)
PartitionByHidden(e, keys, wantHidden) ==
    IF keys = <<>> THEN <<>>
    ELSE LET k == Head(keys)
         IN (IF /\ StartsWith(k, ModelId \o <<Hash>>)
                /\ Includes(hiddenElementIds, SplitPop(k)) = wantHidden
             THEN <<<<e, k>>>> ELSE <<>>)
            \o PartitionByHidden(e, Tail(keys), wantHidden)

\* handles of hs that are also in among
RECURSIVE KeepIn(_, _)
KeepIn(hs, among) ==
    IF hs = <<>> THEN <<>>
    ELSE (IF Includes(among, Head(hs)) THEN <<Head(hs)>> ELSE <<>>)
         \o KeepIn(Tail(hs), among)

VisibilityEffect(vs) ==
    IF viewerRef = 0 \/ modelRef = 0 THEN vs
    ELSE IF ~isolatedElementIds.isNull THEN vs
    ELSE LET objectsToShow == PartitionByHidden(viewerRef, sceneKeys[viewerRef], FALSE)
             objectsToHide == PartitionByHidden(viewerRef, sceneKeys[viewerRef], TRUE)
             selectedArray == FilterSelected(vs.objects, AllObjects(viewerRef), TRUE)
         IN IF ~caps.setObjectsVisible /\ Len(objectsToShow) + Len(objectsToHide) > 0
            THEN [vs EXCEPT !.threw = TRUE]
            ELSE LET vis == SetVisibleAll(SetVisibleAll(vs.objects, objectsToShow, TRUE),
                                          objectsToHide, FALSE)
                 IN IF caps.setObjectsColorized
                    THEN [vs EXCEPT !.objects =
                             WriteColorAll(vis, KeepIn(selectedArray, objectsToShow),
                                           BlueColor)]
                    ELSE [vs EXCEPT !.objects = vis]

IsolationEffect(vs) ==
    IF viewerRef = 0 \/ modelRef = 0 THEN vs
    ELSE IsolateElementsOp(vs, [isNull |-> isolatedElementIds.isNull,
                                ids |-> isolatedElementIds.ids])

XrayEffect(vs) ==
    IF viewerRef = 0 THEN vs ELSE SetXrayModeOp(vs, xrayMode)

DisplayModeEffect(vs) ==
    IF viewerRef = 0 \/ modelRef = 0 THEN vs
    ELSE SetDisplayModeOp(vs, displayMode)

\* an effect that raised ends the commit
Then(vs, d, name, result) ==
    IF name \in d /\ ~vs.threw THEN result ELSE vs

EffectsOp(vs, d) ==
    LET s1 == Then(vs, d, "sel", SelectionEffect(vs))
        s2 == Then(s1, d, "vis", VisibilityEffect(s1))
        s3 == Then(s2, d, "iso", IsolationEffect(s2))
        s4 == Then(s3, d, "xray", XrayEffect(s3))
        s5 == Then(s4, d, "mode", DisplayModeEffect(s4))
    IN s5

RunEffects ==
    /\ dirty # {}
    /\ Commit(EffectsOp(Cur, dirty))
    /\ dirty' = {}
    /\ UNCHANGED <<opFrame, selectedElementId, selectedElementIds,
                   hiddenElementIds, isolatedElementIds, xrayMode, displayMode,
                   pageViewerRef, pageMetadata, obsVars>>

(***************************************************************************)
(* ModelViewerPage handlers.                                               *)
(***************************************************************************)
KnownElements == {ElA, ElB, ElC}

\* isolatedElementIds: null, or a list; sameRef: the list is the very array
\* selectedElementIds holds (setIsolatedElementIds(selectedElementIds))
NullIsolation == [isNull |-> TRUE, ids |-> <<>>, sameRef |-> FALSE]

\* selectedElementIds was assigned a new array
Unshared(iso) == [iso EXCEPT !.sameRef = FALSE]

NoElement == <<>>

First(seq) == IF Len(seq) > 0 THEN seq[1] ELSE NoElement

\* a click that always replaces the selection, modifier or not
ElementSelectReplace(elementId, ctrl) ==
    IF elementId = NoElement THEN <<NoElement, <<>>>>
    ELSE <<elementId, <<elementId>>>>

\* a click that puts a newly added element first
ElementSelectPrepend(elementId, ctrl) ==
    IF elementId = NoElement THEN <<NoElement, <<>>>>
    ELSE IF ctrl /\ ~Includes(selectedElementIds, elementId)
         THEN <<elementId, <<elementId>> \o selectedElementIds>>
    ELSE IF ctrl
         THEN <<First(Without(selectedElementIds, elementId)),
                Without(selectedElementIds, elementId)>>
    ELSE <<elementId, <<elementId>>>>

\* a click whose removal of an element leaves the primary selection as it was
ElementSelectKeepPrimary(elementId, ctrl) ==
    IF elementId = NoElement THEN <<NoElement, <<>>>>
    ELSE IF ctrl /\ Includes(selectedElementIds, elementId)
         THEN <<selectedElementId, Without(selectedElementIds, elementId)>>
    ELSE IF ctrl
         THEN <<elementId, Append(selectedElementIds, elementId)>>
    ELSE <<elementId, <<elementId>>>>

\* handleElementSelect(elementId, event): the new <<primary, list>>, or the
\* unchanged pair when the element is not in the metadata
ElementSelectResult(elementId, ctrl) ==
    IF elementId = NoElement THEN <<NoElement, <<>>>>
    ELSE IF pageMetadata /\ elementId \notin KnownElements
         THEN <<selectedElementId, selectedElementIds>>
    ELSE IF ctrl
         THEN IF Includes(selectedElementIds, elementId)
              THEN <<First(Without(selectedElementIds, elementId)),
                     Without(selectedElementIds, elementId)>>
              ELSE <<elementId, Append(selectedElementIds, elementId)>>
    ELSE <<elementId, <<elementId>>>>

ElementSelectRejected(elementId) ==
    elementId # NoElement /\ pageMetadata /\ elementId \notin KnownElements

HandleElementSelect(elementId, ctrl) ==
    LET r == ElementSelectResult(elementId, ctrl)
    IN IF ElementSelectRejected(elementId)
       THEN UNCHANGED <<opFrame, sceneObjects, ledgerVars, pageVars>>
       ELSE /\ selectedElementId' = r[1]
            /\ selectedElementIds' = r[2]
            /\ Commit(ViaRef(Cur, SelectElementsOp(Cur, r[2])))
            /\ dirty' = dirty \cup {"sel"}
            /\ isolatedElementIds' = Unshared(isolatedElementIds)
            /\ UNCHANGED <<opFrame, hiddenElementIds,
                           xrayMode, displayMode, pageViewerRef, pageMetadata>>

\* handleDeselectAll
HandleDeselectAll ==
    /\ selectedElementId' = NoElement
    /\ selectedElementIds' = <<>>
    /\ Commit(ViaRef(Cur, SelectElementsOp(Cur, <<>>)))
    /\ dirty' = dirty \cup {"sel"}
    /\ isolatedElementIds' = Unshared(isolatedElementIds)
    /\ UNCHANGED <<opFrame, hiddenElementIds,
                   xrayMode, displayMode, pageViewerRef, pageMetadata>>

\* handleElementsSelect and handleGroupApply (same body)
HandleElementsSelect(elementIds) ==
    /\ selectedElementIds' = elementIds
    /\ selectedElementId' = First(elementIds)
    /\ Commit(ViaRef(Cur, SelectElementsOp(Cur, elementIds)))
    /\ dirty' = dirty \cup {"sel"}
    /\ isolatedElementIds' = Unshared(isolatedElementIds)
    /\ UNCHANGED <<opFrame, hiddenElementIds,
                   xrayMode, displayMode, pageViewerRef, pageMetadata>>

\* [...new Set(seq)]: first occurrences, in order
RECURSIVE Dedup(_)
Dedup(seq) ==
    IF seq = <<>> THEN <<>>
    ELSE LET init == Dedup(SubSeq(seq, 1, Len(seq) - 1))
             x == seq[Len(seq)]
         IN IF Includes(init, x) THEN init ELSE Append(init, x)

\* handleElementToggleVisibility(elementId, visible)
HandleElementToggleVisibility(elementId, visible) ==
    /\ hiddenElementIds' = IF visible THEN Without(hiddenElementIds, elementId)
                           ELSE Append(hiddenElementIds, elementId)
    /\ Commit(ViaRef(Cur, IF visible THEN ShowElementsOp(Cur, <<elementId>>)
                          ELSE HideElementsOp(Cur, <<elementId>>)))
    /\ dirty' = dirty \cup {"vis"}
    /\ UNCHANGED <<opFrame, selectedElementId, selectedElementIds,
                   isolatedElementIds, xrayMode, displayMode, pageViewerRef,
                   pageMetadata>>

\* handleHide
HandleHide ==
    /\ Len(selectedElementIds) # 0
    /\ hiddenElementIds' = Dedup(hiddenElementIds \o selectedElementIds)
    /\ Commit(ViaRef(Cur, HideElementsOp(Cur, selectedElementIds)))
    /\ dirty' = dirty \cup {"vis"}
    /\ UNCHANGED <<opFrame, selectedElementId, selectedElementIds,
                   isolatedElementIds, xrayMode, displayMode, pageViewerRef,
                   pageMetadata>>

\* handleShow
HandleShow ==
    /\ Len(hiddenElementIds) # 0
    /\ hiddenElementIds' = <<>>
    /\ Commit(ViaRef(Cur, ShowElementsOp(Cur, hiddenElementIds)))
    /\ dirty' = dirty \cup {"vis"}
    /\ UNCHANGED <<opFrame, selectedElementId, selectedElementIds,
                   isolatedElementIds, xrayMode, displayMode, pageViewerRef,
                   pageMetadata>>

\* handleIsolate; the state setter is given the array selectedElementIds
\* holds, so a repeated isolate of the same selection changes no dependency
HandleIsolate ==
    /\ Len(selectedElementIds) # 0
    /\ isolatedElementIds' = [isNull |-> FALSE, ids |-> selectedElementIds,
                              sameRef |-> TRUE]
    /\ Commit(ViaRef(Cur, IsolateElementsOp(Cur, isolatedElementIds')))
    /\ dirty' = dirty \cup (IF ~isolatedElementIds.isNull /\ isolatedElementIds.sameRef
                            THEN {} ELSE {"vis", "iso"})
    /\ UNCHANGED <<opFrame, selectedElementId, selectedElementIds,
                   hiddenElementIds, xrayMode, displayMode, pageViewerRef,
                   pageMetadata>>

\* a reset that only clears the selection
ResetCallsSelectOnly(vs) == SelectElementsOp(vs, <<>>)

\* the three table calls of handleReset, in order
ResetCalls(vs) ==
    LET s1 == IsolateElementsOp(vs, NullIsolation)
        s2 == IF Len(hiddenElementIds) > 0 /\ ~s1.threw
              THEN ShowElementsOp(s1, hiddenElementIds) ELSE s1
    IN IF s2.threw THEN s2 ELSE SelectElementsOp(s2, <<>>)

\* handleReset
HandleReset ==
    /\ hiddenElementIds' = <<>>
    /\ isolatedElementIds' = NullIsolation
    /\ selectedElementIds' = <<>>
    /\ selectedElementId' = NoElement
    /\ Commit(ViaRef(Cur, ResetCalls(Cur)))
    /\ dirty' = dirty \cup {"vis", "sel"}
                      \cup (IF isolatedElementIds.isNull THEN {} ELSE {"iso"})
    /\ UNCHANGED <<opFrame, xrayMode, displayMode, pageViewerRef, pageMetadata>>

(***************************************************************************)
(* Input events of the bring-up that attached the listeners (lines         *)
(* 231-263) and the picked handler (lines 280-324).                        *)
(***************************************************************************)
NoHit == <<>>

\* progress of the scenario "click A, click B with the modifier, click empty
\* space", started on a model nothing was selected on; 4: not that scenario
ScenarioStep(hit, ctrl) ==
    IF e2e = 0 /\ hit # NoHit /\ PickedElementId(hit) = ElA /\ ~ctrl THEN 1
    ELSE IF e2e = 1 /\ hit # NoHit /\ PickedElementId(hit) = ElB /\ ctrl THEN 2
    ELSE IF e2e = 2 /\ hit = NoHit THEN 3
    ELSE 4

OffScenario ==
    /\ e2e' = 4
    /\ snap' = IF e2e = 0 THEN Cur ELSE snap
    /\ UNCHANGED <<late, calls>>

\* handleKeyDown / handleKeyUp for Control or Meta: every attached listener runs
KeyDown ==
    /\ listeners # {}
    /\ isCtrlPressed' = [r \in RunIds |-> IF r \in listeners THEN TRUE
                                          ELSE isCtrlPressed[r]]
    /\ UNCHANGED <<engineVars, refVars, ledgerVars, statusVars, runVars,
                   pageVars, obsVars>>

KeyUp ==
    /\ listeners # {}
    /\ isCtrlPressed' = [r \in RunIds |-> IF r \in listeners THEN FALSE
                                          ELSE isCtrlPressed[r]]
    /\ UNCHANGED <<engineVars, refVars, ledgerVars, statusVars, runVars,
                   pageVars, obsVars>>

\* handleMouseDown on the canvas of run r: isCtrlPressed = e.ctrlKey || e.metaKey
CanvasMouseDown(r, ctrl) ==
    /\ r \in listeners
    /\ engineStatus[runEngine[r]] = "live"
    /\ isCtrlPressed' = [isCtrlPressed EXCEPT ![r] = ctrl]
    /\ UNCHANGED <<engineVars, refVars, ledgerVars, statusVars, runVars,
                   pageVars, obsVars>>

\* a picked handler that never reports the modifier
PickedCallPlain(r, hit) ==
    IF hit # NoHit
    THEN [fn |-> "onElementSelect", elementId |-> PickedElementId(hit),
          ctrlKey |-> FALSE]
    ELSE [fn |-> "onDeselectAll", elementId |-> NoElement, ctrlKey |-> FALSE]

\* the callback the 'picked' handler of run r makes, with its arguments:
\* onElementSelect(elementId, {ctrlKey, metaKey}) for an entity, else
\* onDeselectAll()
PickedCall(r, hit) ==
    IF hit # NoHit
    THEN [fn |-> "onElementSelect", elementId |-> PickedElementId(hit),
          ctrlKey |-> isCtrlPressed[r]]
    ELSE [fn |-> "onDeselectAll", elementId |-> NoElement, ctrlKey |-> FALSE]

\* the 'picked' handler of run r; hit is the key of the picked entity or NoHit
Picked(r, hit) ==
    /\ runSetup[r] = "registered"
    /\ engineStatus[runEngine[r]] = "live"
    /\ hit = NoHit \/ HasKey(sceneKeys[runEngine[r]], hit)
    /\ dirty = {}
    /\ IF PickedCall(r, hit).fn = "onElementSelect"
       THEN HandleElementSelect(PickedCall(r, hit).elementId,
                                PickedCall(r, hit).ctrlKey)
       ELSE HandleDeselectAll
    /\ e2e' = ScenarioStep(hit, isCtrlPressed[r])
    /\ snap' = IF e2e = 0 THEN Cur ELSE snap
    /\ UNCHANGED <<late, calls>>

(***************************************************************************)
(* The tree and the groups panel (ViewerGroups.tsx).                       *)
(***************************************************************************)
\* ViewerTree.handleElementClick
TreeClick(elementId, ctrl) ==
    /\ dirty = {}
    /\ IF ctrl
       THEN IF Includes(selectedElementIds, elementId)
            THEN HandleElementsSelect(Without(selectedElementIds, elementId))
            ELSE HandleElementsSelect(Append(selectedElementIds, elementId))
       ELSE HandleElementSelect(elementId, FALSE)
    /\ OffScenario

\* ViewerGroups.handleApplyGroup: onGroupApply(group.element_ids)
GroupApply(elementIds) ==
    /\ dirty = {}
    /\ HandleElementsSelect(elementIds)
    /\ OffScenario

\* a call of the operation table's selectElements by any holder of the table
CallSelectElements(elementIds) ==
    /\ dirty = {}
    /\ Commit(SelectElementsOp(Cur, elementIds))
    /\ UNCHANGED <<opFrame, pageVars>>
    /\ OffScenario

\* calls of the other operations of the table by any holder of the table
CallHideElements(elementIds) ==
    /\ dirty = {}
    /\ Commit(HideElementsOp(Cur, elementIds))
    /\ UNCHANGED <<opFrame, pageVars>>
    /\ OffScenario

CallShowElements(elementIds) ==
    /\ dirty = {}
    /\ Commit(ShowElementsOp(Cur, elementIds))
    /\ UNCHANGED <<opFrame, pageVars>>
    /\ OffScenario

(***************************************************************************)
(* Scenes and initial states.                                              *)
(***************************************************************************)
\* colours an object of a loaded model may carry: none, a tint of the model,
\* a colour within the tolerance of the highlight colour
TintColor == <<800, 200, 200>>
NearBlueColor == <<235, 510, 960>>
InitColors == {NullColor, TintColor, NearBlueColor}

\* a scene whose keys have the three forms the lookup accepts
MixedScene == <<CompositeKey(ModelId, ElA), ElB, CompositeKey(OtherModelId, ElC)>>

\* lists of element ids handed to the handlers and the operations
RECURSIVE SeqsUpTo(_, _)
SeqsUpTo(S, n) ==
    IF n = 0 THEN {<<>>}
    ELSE LET shorter == SeqsUpTo(S, n - 1)
         IN shorter \cup {Append(q, x) : q \in shorter, x \in S}

IdLists == SeqsUpTo(KnownElements, MaxIds)

\* the element lists of the saved groups of the page
Groups == {<<ElA, ElB>>, <<ElC, ElC>>}

\* the colourings of the mixed scene: A carries any colour, B none or a
\* highlight-like one, C the tint
MixedColorings ==
    {f \in [Range(MixedScene) -> InitColors] :
        /\ f[ElB] # TintColor
        /\ f[CompositeKey(OtherModelId, ElC)] = TintColor}

\* the state in which the bring-up of run 1 has completed on engine 1, with
\* the scene keys, the capability surface and the object colours given
LoadedInit(keys, capsSet, colorings) ==
    /\ engineStatus = [e \in EngineIds |-> IF e = 1 THEN "live" ELSE "none"]
    /\ sceneReady = [e \in EngineIds |-> e = 1]
    /\ sceneKeys = [e \in EngineIds |-> IF e = 1 THEN keys ELSE <<>>]
    /\ \E f \in colorings :
          sceneObjects = [e \in EngineIds |->
                            [k \in (IF e = 1 THEN Range(keys) ELSE {}) |->
                                NewObject(f[k])]]
    /\ caps \in capsSet
    /\ viewerRef = 1
    /\ modelRef = 1
    /\ previouslySelectedEntities = <<>>
    /\ originalColors = EmptyLedger
    /\ opThrew = FALSE
    /\ lastCall = NoCall
    /\ loading = FALSE
    /\ error = "none"
    /\ metadata = TRUE
    /\ mounted = TRUE
    /\ runPc = [r \in RunIds |-> IF r = 1 THEN "done" ELSE "idle"]
    /\ runMounted = [r \in RunIds |-> r = 1]
    /\ runEngine = [r \in RunIds |-> IF r = 1 THEN 1 ELSE 0]
    /\ runAttempts = [r \in RunIds |-> IF r = 1 THEN 1 ELSE 0]
    /\ runSetup = [r \in RunIds |-> IF r = 1 THEN "registered" ELSE "none"]
    /\ isCtrlPressed = [r \in RunIds |-> FALSE]
    /\ listeners = {1}
    /\ canvasOwner = 1
    /\ selectedElementId = NoElement
    /\ selectedElementIds = <<>>
    /\ hiddenElementIds = <<>>
    /\ isolatedElementIds = NullIsolation
    /\ xrayMode = FALSE
    /\ displayMode = "shaded"
    /\ pageViewerRef = TRUE
    /\ pageMetadata = TRUE
    /\ dirty = {}
    /\ late = {}
    /\ calls = {<<"onLoad", 1>>, <<"onRefReady", 1>>}
    /\ e2e = 0
    /\ snap = [objects |-> sceneObjects, ledger |-> EmptyLedger, prev |-> <<>>,
               threw |-> FALSE, last |-> NoCall]

(***************************************************************************)
(* Spec: selection on a loaded model.                                      *)
(***************************************************************************)
Init ==
    LoadedInit(MixedScene, {FullCaps("array"), FullCaps("float32")},
               MixedColorings)

Next ==
    \/ KeyDown
    \/ KeyUp
    \/ \E r \in RunIds, ctrl \in BOOLEAN : CanvasMouseDown(r, ctrl)
    \/ \E r \in RunIds, hit \in Range(MixedScene) \cup {NoHit} : Picked(r, hit)
    \/ \E ids \in Groups : GroupApply(ids)
    \/ \E ids \in IdLists : CallSelectElements(ids)
    \/ RunEffects

Spec == Init /\ [][Next]_vars

(***************************************************************************)
(* Properties of selection and of the original-colour ledger (Spec).       *)
(***************************************************************************)
ClearedSelection ==
    lastCall = [op |-> "selectElements", arg |-> "empty", ran |-> TRUE]

\* C1: on a loaded model, whenever the most recent selectElements call of any
\* sequence of calls was selectElements([]), the ledger holds zero records.
C1_LedgerEmptyAfterClear ==
    ClearedSelection => DOMAIN originalColors = {}

\* a selectElements([]) made through the table while the page still lists a
\* selection, i.e. after selections that had filled the ledger
C1_Witness ==
    /\ ClearedSelection
    /\ selectedElementIds # <<>>
    /\ dirty = {}
    /\ DOMAIN originalColors = {}

\* C2: no record of the ledger is a colour within the tolerance of the
\* highlight colour; a handle captured while it shows the highlight colour
\* has the "no override" value recorded.
C2_NoHighlightInLedger ==
    \A id \in DOMAIN originalColors :
        /\ originalColors[id] = NullColor \/ ~IsBlueColor(originalColors[id])
        /\ IsBlueColor(snap.objects[viewerRef][id].colorize) /\ e2e = 1
              => originalColors[id] = NullColor

\* the first selection captured an object that carried a highlight-like colour
C2_Witness ==
    /\ e2e = 1
    /\ \E id \in DOMAIN originalColors :
          /\ snap.objects[viewerRef][id].colorize = NearBlueColor
          /\ originalColors[id] = NullColor
          /\ sceneObjects[viewerRef][id].colorize = BlueColor

\* colour, engine-selected flag and highlight flag of every object, and the
\* ledger, agree in two viewer-side states
SameAppearance(a, b) ==
    /\ \A e \in EngineIds : \A k \in DOMAIN a.objects[e] :
          /\ a.objects[e][k].colorize = b.objects[e][k].colorize
          /\ a.objects[e][k].selected = b.objects[e][k].selected
          /\ a.objects[e][k].highlighted = b.objects[e][k].highlighted
    /\ a.ledger = b.ledger

\* C4: for every id list, selectElements(ids) called twice in succession
\* leaves every object's colour and engine-selected flag and the ledger as
\* one call leaves them.
C4_SelectTwiceAsOnce ==
    \A ids \in IdLists :
        LET once == SelectElementsOp(Cur, ids)
        IN SameAppearance(SelectElementsOp(once, ids), once)

\* C4 for the lists that name no element twice
C4_SelectTwiceAsOnceDistinct ==
    \A ids \in IdLists :
        (\A i, j \in 1..Len(ids) : ids[i] = ids[j] => i = j) =>
            LET once == SelectElementsOp(Cur, ids)
            IN SameAppearance(SelectElementsOp(once, ids), once)

KeyA == CompositeKey(ModelId, ElA)
KeyB == ElB
KeyC == CompositeKey(OtherModelId, ElC)

ScenarioDone == e2e = 3 /\ dirty = {}

NothingSelected ==
    /\ selectedElementIds = <<>>
    /\ DOMAIN originalColors = {}
    /\ \A k \in Range(MixedScene) : ~sceneObjects[viewerRef][k].selected

\* C5 as stated: after click A, click B with the modifier and a click on
\* empty space, nothing is selected, the ledger is empty, no object has the
\* highlight colour and every object has the colour it had before.
C5_ScenarioRestoresAll ==
    ScenarioDone =>
        /\ NothingSelected
        /\ \A k \in Range(MixedScene) :
              /\ ~IsBlueColor(sceneObjects[viewerRef][k].colorize)
              /\ sceneObjects[viewerRef][k].colorize
                    = snap.objects[viewerRef][k].colorize

\* C5: after click A, click B with the modifier and a click on empty space,
\* nothing is selected and the ledger is empty; a clicked object has the
\* colour it had before unless that was the highlight colour, in which case
\* it has no colour override; the object that was not clicked keeps its colour.
C5_ScenarioRestores ==
    ScenarioDone =>
        /\ NothingSelected
        /\ \A k \in {KeyA, KeyB} :
              sceneObjects[viewerRef][k].colorize
                 = IF IsBlueColor(snap.objects[viewerRef][k].colorize)
                   THEN NullColor
                   ELSE snap.objects[viewerRef][k].colorize
        /\ sceneObjects[viewerRef][KeyC].colorize
              = snap.objects[viewerRef][KeyC].colorize

C5_Witness ==
    /\ ScenarioDone
    /\ snap.objects[viewerRef][KeyA].colorize = TintColor
    /\ snap.objects[viewerRef][KeyB].colorize = NearBlueColor
    /\ sceneObjects[viewerRef][KeyA].colorize = TintColor

\* selecting [A,B] in one step from the state the scenario started in: the
\* handler's call and the selection effect that follows it
OneStepAB == SelectElementsOp(SelectElementsOp(snap, <<ElA, ElB>>), <<ElA, ElB>>)

\* C6: from an empty selection, selecting A and then additively selecting B
\* ends with the same selected ids, the same engine-selected and highlighted
\* handles and the same ledger as selecting [A,B] in one step.
C6_AdditiveAsOneStep ==
    e2e = 2 /\ dirty = {} =>
        /\ Range(selectedElementIds) = {ElA, ElB}
        /\ SameAppearance(Cur, OneStepAB)
        /\ Range(previouslySelectedEntities) = Range(OneStepAB.prev)

C6_Witness ==
    /\ e2e = 2
    /\ dirty = {}
    /\ originalColors = (KeyA :> TintColor) @@ (KeyB :> NullColor)
    /\ sceneObjects[viewerRef][KeyB].selected

(***************************************************************************)
(* SpecVisibility: the page's hide, show, isolate and reset on a loaded     *)
(* model whose objects all carry the composite key of the model.           *)
(***************************************************************************)
CompositeScene == <<CompositeKey(ModelId, ElA), CompositeKey(ModelId, ElB),
                    CompositeKey(ModelId, ElC)>>

\* ViewerTree.handleVisibilityToggle
TreeVisibilityToggle(elementId) ==
    /\ dirty = {}
    /\ HandleElementToggleVisibility(elementId,
                                     Includes(hiddenElementIds, elementId))
    /\ OffScenario

ToolbarHide == dirty = {} /\ HandleHide /\ OffScenario

ToolbarShow == dirty = {} /\ HandleShow /\ OffScenario

ToolbarIsolate == dirty = {} /\ HandleIsolate /\ OffScenario

ToolbarReset == dirty = {} /\ HandleReset /\ OffScenario

InitVisibility ==
    LoadedInit(CompositeScene, {FullCaps("array")},
               {[k \in Range(CompositeScene) |-> NullColor]})

NextVisibility ==
    \/ \E id \in KnownElements, ctrl \in BOOLEAN : TreeClick(id, ctrl)
    \/ \E id \in KnownElements : TreeVisibilityToggle(id)
    \/ ToolbarHide
    \/ ToolbarShow
    \/ ToolbarIsolate
    \/ ToolbarReset
    \/ RunEffects

SpecVisibility == InitVisibility /\ [][NextVisibility]_vars

\* keys of the visible objects of the current engine
VisibleKeys == {k \in Range(sceneKeys[viewerRef]) : sceneObjects[viewerRef][k].visible}

\* the keys isolateElements resolves the members of a list to
RECURSIVE CompositeKeysOf(_)
CompositeKeysOf(elementIds) ==
    IF elementIds = <<>> THEN {}
    ELSE (IF HasKey(sceneKeys[viewerRef], CompositeKey(ModelId, Head(elementIds)))
          THEN {CompositeKey(ModelId, Head(elementIds))} ELSE {})
         \cup CompositeKeysOf(Tail(elementIds))

\* C7: while isolatedElementIds is non-null, whatever the hidden set and the
\* hide requests of the UI, the visible objects are exactly the resolved
\* members of isolatedElementIds.
C7_IsolationWinsOverHide ==
    ~isolatedElementIds.isNull /\ dirty = {} =>
        VisibleKeys = CompositeKeysOf(isolatedElementIds.ids)

(***************************************************************************)
(* SpecProps: a parent that sets the props hiddenElementIds and            *)
(* isolatedElementIds of Viewer3D on a loaded model with elements A..D.    *)
(***************************************************************************)
AllElements == {ElA, ElB, ElC, ElD}

FourScene == <<CompositeKey(ModelId, ElA), CompositeKey(ModelId, ElB),
               CompositeKey(ModelId, ElC), CompositeKey(ModelId, ElD)>>

PropLists == SeqsUpTo(AllElements, MaxIds)

\* progress of "hidden := [A]; isolated := [B,C]; isolated := null", each
\* prop set once the effects of the previous one have run; 4: another history
PropsStep(prop, value) ==
    IF dirty # {} THEN 4
    ELSE IF e2e = 0 /\ prop = "hidden" /\ value = <<ElA>> THEN 1
    ELSE IF e2e = 1 /\ prop = "isolated" /\ value = <<ElB, ElC>> THEN 2
    ELSE IF e2e = 2 /\ prop = "isolatedNull" THEN 3
    ELSE 4

\* the parent renders Viewer3D with a new hiddenElementIds array
PropsSetHidden(elementIds) ==
    /\ hiddenElementIds' = elementIds
    /\ dirty' = dirty \cup {"vis"}
    /\ e2e' = PropsStep("hidden", elementIds)
    /\ UNCHANGED <<engineVars, refVars, ledgerVars, statusVars, runVars,
                   inputVars, selectedElementId, selectedElementIds,
                   isolatedElementIds, xrayMode, displayMode, pageViewerRef,
                   pageMetadata, late, calls, snap>>

\* the parent renders Viewer3D with a new isolatedElementIds array
PropsSetIsolated(elementIds) ==
    /\ isolatedElementIds' = [isNull |-> FALSE, ids |-> elementIds,
                              sameRef |-> FALSE]
    /\ dirty' = dirty \cup {"vis", "iso"}
    /\ e2e' = PropsStep("isolated", elementIds)
    /\ UNCHANGED <<engineVars, refVars, ledgerVars, statusVars, runVars,
                   inputVars, selectedElementId, selectedElementIds,
                   hiddenElementIds, xrayMode, displayMode, pageViewerRef,
                   pageMetadata, late, calls, snap>>

\* the parent renders Viewer3D with isolatedElementIds = null
PropsClearIsolated ==
    /\ ~isolatedElementIds.isNull
    /\ isolatedElementIds' = NullIsolation
    /\ dirty' = dirty \cup {"vis", "iso"}
    /\ e2e' = PropsStep("isolatedNull", <<>>)
    /\ UNCHANGED <<engineVars, refVars, ledgerVars, statusVars, runVars,
                   inputVars, selectedElementId, selectedElementIds,
                   hiddenElementIds, xrayMode, displayMode, pageViewerRef,
                   pageMetadata, late, calls, snap>>

InitProps ==
    LoadedInit(FourScene, {FullCaps("array")},
               {[k \in Range(FourScene) |-> NullColor]})

NextProps ==
    \/ \E ids \in PropLists : PropsSetHidden(ids)
    \/ \E ids \in PropLists : PropsSetIsolated(ids)
    \/ PropsClearIsolated
    \/ RunEffects

SpecProps == InitProps /\ [][NextProps]_vars

\* C3: with hiddenElementIds = [A], once isolatedElementIds has become [B,C]
\* exactly B and C are visible; once it has then become null, with
\* hiddenElementIds still [A], every element except A is visible.
C3_HiddenRevertsAfterIsolation ==
    /\ e2e = 2 /\ dirty = {} =>
          VisibleKeys = {CompositeKey(ModelId, ElB), CompositeKey(ModelId, ElC)}
    /\ e2e = 3 /\ dirty = {} =>
          VisibleKeys = Range(FourScene) \ {CompositeKey(ModelId, ElA)}

\* C3, first half: with hiddenElementIds = [A], once isolatedElementIds has
\* become [B,C] exactly B and C are visible
C3_IsolatedOnlyVisible ==
    e2e = 2 /\ dirty = {} =>
        VisibleKeys = {CompositeKey(ModelId, ElB), CompositeKey(ModelId, ElC)}

(***************************************************************************)
(* SpecResolver: the lookup of an element id, over scenes whose keys are   *)
(* drawn from the forms a key of element A can take.                       *)
(***************************************************************************)
MaxKeys == 3

KeyForms == {CompositeKey(ModelId, ElA), ElA, CompositeKey(OtherModelId, ElA),
             CompositeKey(ModelId, ElB)}

\* the registries of at most MaxKeys objects, in every key order
ResolverScenes ==
    {q \in SeqsUpTo(KeyForms, MaxKeys) :
        \A i, j \in 1..Len(q) : q[i] = q[j] => i = j}

InitResolver ==
    \E keys \in ResolverScenes :
        LoadedInit(keys, {FullCaps("array")}, {[k \in Range(keys) |-> NullColor]})

NextResolver ==
    \/ \E ids \in {<<>>, <<ElA>>} : CallSelectElements(ids)
    \/ \E ids \in {<<>>, <<ElA>>} : CallHideElements(ids)
    \/ \E ids \in {<<>>, <<ElA>>} : CallShowElements(ids)

SpecResolver == InitResolver /\ [][NextResolver]_vars

LiveKeys == sceneKeys[viewerRef]

ResolvedA == ResolveEntity(LiveKeys, ModelId, ElA)

\* C8: the lookup of element A of model m1 returns the object under the
\* composite key if there is one, else the one under the bare key, else one
\* whose key ends with "#A", else nothing; selectElements selects and
\* hideElements hides exactly what the lookup returns.
C8_ResolutionChain ==
    /\ HasKey(LiveKeys, CompositeKey(ModelId, ElA))
          => ResolvedA = <<CompositeKey(ModelId, ElA)>>
    /\ ~HasKey(LiveKeys, CompositeKey(ModelId, ElA)) /\ HasKey(LiveKeys, ElA)
          => ResolvedA = <<ElA>>
    /\ (/\ ~HasKey(LiveKeys, CompositeKey(ModelId, ElA))
        /\ ~HasKey(LiveKeys, ElA)
        /\ HasKey(LiveKeys, CompositeKey(OtherModelId, ElA)))
          => ResolvedA = <<CompositeKey(OtherModelId, ElA)>>
    /\ (/\ ~HasKey(LiveKeys, CompositeKey(ModelId, ElA))
        /\ ~HasKey(LiveKeys, ElA)
        /\ ~HasKey(LiveKeys, CompositeKey(OtherModelId, ElA)))
          => ResolvedA = <<>>
    /\ lastCall = [op |-> "selectElements", arg |-> "ids", ran |-> TRUE]
          => previouslySelectedEntities
                = [i \in 1..Len(ResolvedA) |-> <<viewerRef, ResolvedA[i]>>]
    /\ lastCall = [op |-> "hideElements", arg |-> "ids", ran |-> TRUE]
          => \A i \in 1..Len(ResolvedA) :
                ~sceneObjects[viewerRef][ResolvedA[i]].visible
    /\ \A k \in Range(LiveKeys) :
          ~sceneObjects[viewerRef][k].visible => ResolvedA = <<k>>

\* element A was selected in a scene that holds it under the bare key and
\* under the key of another model: the bare key won
C8_Witness ==
    /\ ~HasKey(LiveKeys, CompositeKey(ModelId, ElA))
    /\ HasKey(LiveKeys, ElA)
    /\ HasKey(LiveKeys, CompositeKey(OtherModelId, ElA))
    /\ lastCall = [op |-> "selectElements", arg |-> "ids", ran |-> TRUE]
    /\ previouslySelectedEntities = <<<<viewerRef, ElA>>>>

(***************************************************************************)
(* SpecLifecycle: the init effect of Viewer3D (lines 70-400).  One run of  *)
(* initViewer per execution of the effect; a run is suspended at its       *)
(* awaits and resumed by the actions below.                                *)
(***************************************************************************)
\* maxAttempts of waitForViewerReady
MaxAttempts == 50

\* the model the loader puts into the scene
LoadedScene == <<CompositeKey(ModelId, ElA)>>

LoadedObjects == [k \in Range(LoadedScene) |-> NewObject(TintColor)]

\* what a run does after its effect was cleaned up is recorded in late
Late(r, what) == IF runMounted[r] THEN late ELSE late \cup what

\* the catch block of initViewer
Catch(r, kind) ==
    /\ runPc' = [runPc EXCEPT ![r] = "failed"]
    /\ error' = IF runMounted[r] THEN kind ELSE error
    /\ loading' = IF runMounted[r] THEN FALSE ELSE loading
    /\ calls' = IF runMounted[r] THEN calls \cup {<<"onError", r>>} ELSE calls

\* new Viewer(...), viewerRef.current = viewerInstance, and the first
\* checkReady of waitForViewerReady
ConstructViewer(r, ready) ==
    /\ \E e \in EngineIds :
          /\ engineStatus[e] = "none"
          /\ \A e2 \in EngineIds : engineStatus[e2] = "none" => e <= e2
          /\ engineStatus' = [engineStatus EXCEPT ![e] = "live"]
          /\ sceneReady' = [sceneReady EXCEPT ![e] = ready]
          /\ runEngine' = [runEngine EXCEPT ![r] = e]
          /\ viewerRef' = e
    /\ late' = Late(r, {"viewerRef"})
    /\ runAttempts' = [runAttempts EXCEPT ![r] = 1]
    /\ runPc' = [runPc EXCEPT ![r] = IF ready THEN "metadata" ELSE "poll"]
    /\ UNCHANGED <<sceneKeys, sceneObjects, caps, modelRef, ledgerVars,
                   statusVars, mounted, runMounted, runSetup, listeners,
                   inputVars, pageVars, calls, e2e, snap>>

\* await import('@xeokit/xeokit-sdk') resolved: the container check, the
\* canvas, and the viewer unless the canvas has no size yet
ImportResolved(r, zeroSize, ready) ==
    /\ runPc[r] = "import"
    /\ IF ~mounted
       THEN /\ runPc' = [runPc EXCEPT ![r] = "returned"]
            /\ UNCHANGED <<engineVars, refVars, ledgerVars, statusVars, mounted,
                           runMounted, runEngine, runAttempts, runSetup,
                           listeners, canvasOwner, inputVars, pageVars, obsVars>>
       ELSE /\ canvasOwner' = r
            /\ IF zeroSize
               THEN /\ runPc' = [runPc EXCEPT ![r] = "raf"]
                    /\ UNCHANGED <<engineVars, refVars, ledgerVars, statusVars,
                                   mounted, runMounted, runEngine, runAttempts,
                                   runSetup, listeners, inputVars, pageVars,
                                   obsVars>>
               ELSE ConstructViewer(r, ready)

\* the animation frame arrived; found: the canvas id names a canvas of the
\* document (the run's own, or the one a later run put under the same id)
RafResolved(r, found, ready) ==
    /\ runPc[r] = "raf"
    /\ found => mounted
    /\ canvasOwner = r /\ mounted => found
    /\ IF found
       THEN ConstructViewer(r, ready) /\ UNCHANGED canvasOwner
       ELSE /\ Catch(r, "viewer")
            /\ UNCHANGED <<engineVars, refVars, ledgerVars, metadata, mounted,
                           runMounted, runEngine, runAttempts, runSetup,
                           listeners, canvasOwner, inputVars, pageVars, late,
                           e2e, snap>>

\* checkReady after the 100 ms timeouts.  The callbacks touch nothing but
\* the attempts counter of their run, so those of a viewer that is not
\* ready in time are taken in one step, up to the one that rejects.
PollTick(r, ready) ==
    /\ runPc[r] = "poll"
    /\ runAttempts[r] < MaxAttempts
    /\ IF ready
       THEN /\ runAttempts' = [runAttempts EXCEPT ![r] = @ + 1]
            /\ sceneReady' = [sceneReady EXCEPT ![runEngine[r]] = TRUE]
            /\ runPc' = [runPc EXCEPT ![r] = "metadata"]
            /\ UNCHANGED <<statusVars, calls>>
       ELSE /\ runAttempts' = [runAttempts EXCEPT ![r] = MaxAttempts]
            /\ Catch(r, "timeout")
            /\ UNCHANGED <<sceneReady, metadata>>
    /\ UNCHANGED <<engineStatus, sceneKeys, sceneObjects, caps, refVars,
                   ledgerVars, mounted, runMounted, runEngine, runSetup,
                   listeners, canvasOwner, inputVars, pageVars, late, e2e, snap>>

\* await getMetadata(...) settled
MetadataResolved(r, outcome) ==
    /\ runPc[r] = "metadata"
    /\ metadata' = IF outcome = "ok" /\ runMounted[r] THEN TRUE ELSE metadata
    /\ runPc' = [runPc EXCEPT ![r] = IF outcome = "authRedirect" THEN "returned"
                                     ELSE "importAuth"]
    /\ UNCHANGED <<engineVars, refVars, ledgerVars, loading, error, mounted,
                   runMounted, runEngine, runAttempts, runSetup, listeners,
                   canvasOwner, inputVars, pageVars, obsVars>>

\* await import('@/lib/api/auth') resolved: the token and the scene checks
AuthImported(r, token, hasModels) ==
    /\ runPc[r] = "importAuth"
    /\ IF ~token \/ ~sceneReady[runEngine[r]]
       THEN Catch(r, "auth") /\ UNCHANGED metadata
       ELSE /\ runPc' = [runPc EXCEPT ![r] = IF hasModels THEN "load"
                                             ELSE "waitModels"]
            /\ UNCHANGED <<statusVars, calls>>
    /\ UNCHANGED <<engineVars, refVars, ledgerVars, mounted, runMounted,
                   runEngine, runAttempts, runSetup, listeners, canvasOwner,
                   inputVars, pageVars, late, e2e, snap>>

\* the 200 ms wait for scene.models ended
ModelsWaited(r, hasModels) ==
    /\ runPc[r] = "waitModels"
    /\ IF hasModels
       THEN /\ runPc' = [runPc EXCEPT ![r] = "load"]
            /\ UNCHANGED <<statusVars, calls>>
       ELSE Catch(r, "models") /\ UNCHANGED metadata
    /\ UNCHANGED <<engineVars, refVars, ledgerVars, mounted, runMounted,
                   runEngine, runAttempts, runSetup, listeners, canvasOwner,
                   inputVars, pageVars, late, e2e, snap>>

\* callbacks made whether or not the run is still mounted
MountedCallbacksAlways(r) == {<<"onLoad", r>>, <<"onRefReady", r>>}

\* the callbacks of the success path made inside if (isMounted): onLoad and
\* onRefReady with the operation table
MountedCallbacks(r) ==
    IF runMounted[r] THEN {<<"onLoad", r>>, <<"onRefReady", r>>} ELSE {}

\* await xktLoader.load(...) settled.  With a model: modelRef, the
\* listeners, setupClickHandler(), onViewerReady, and under isMounted
\* setLoading(false), onLoad and onRefReady.  attachOk: the canvas of the
\* run's viewer can still be reached (line 234); a destroyed viewer may
\* have dropped it.
LoadResolved(r, outcome, attachOk) ==
    /\ runPc[r] = "load"
    /\ attachOk \/ engineStatus[runEngine[r]] = "destroyed"
    /\ IF outcome = "model"
       THEN LET e == runEngine[r]
            IN /\ sceneKeys' = [sceneKeys EXCEPT ![e] = LoadedScene]
               /\ sceneObjects' = [sceneObjects EXCEPT ![e] = LoadedObjects]
               /\ modelRef' = e
               /\ IF attachOk
                  THEN /\ listeners' = listeners \cup {r}
                       /\ runSetup' = [runSetup EXCEPT ![r] = "awaiting"]
                       /\ late' = Late(r, {"modelRef", "listeners", "onViewerReady"})
                       /\ calls' = calls \cup {<<"onViewerReady", r>>}
                                      \cup MountedCallbacks(r)
                       /\ loading' = IF runMounted[r] THEN FALSE ELSE loading
                       /\ pageViewerRef' = (pageViewerRef \/ runMounted[r])
                       /\ runPc' = [runPc EXCEPT ![r] = "done"]
                       /\ UNCHANGED error
                  ELSE /\ late' = Late(r, {"modelRef"})
                       /\ Catch(r, "viewer")
                       /\ UNCHANGED <<listeners, runSetup, pageViewerRef>>
       ELSE /\ IF outcome = "null"
               THEN /\ runPc' = [runPc EXCEPT ![r] = "probe"]
                    /\ UNCHANGED <<loading, error, calls>>
               ELSE Catch(r, "load")
            /\ UNCHANGED <<sceneKeys, sceneObjects, modelRef, listeners,
                           runSetup, late, pageViewerRef>>
    /\ UNCHANGED <<engineStatus, sceneReady, caps, viewerRef, ledgerVars,
                   metadata, mounted, runMounted, runEngine, runAttempts,
                   canvasOwner, inputVars, selectedElementId,
                   selectedElementIds, hiddenElementIds, isolatedElementIds,
                   xrayMode, displayMode, pageMetadata, dirty, e2e, snap>>

\* what the HEAD request of the asset URL can end in: an ok answer, a
\* non-ok answer, a rejection
ProbeOutcomes == {"ok", "notOk", "throws"}

\* a probe whose outcome does not change the error
ProbeErrorKindSame(probe) == "xkt"

\* the error thrown after the probe: not ok throws inside the try and is
\* rethrown by its catch as the access error, like a rejected request
ProbeErrorKind(probe) == IF probe = "ok" THEN "null" ELSE "xkt"

\* the HEAD probe after load() gave no model: every outcome throws
ProbeResolved(r, probe) ==
    /\ runPc[r] = "probe"
    /\ Catch(r, ProbeErrorKind(probe))
    /\ UNCHANGED <<engineVars, refVars, ledgerVars, metadata, mounted,
                   runMounted, runEngine, runAttempts, runSetup, listeners,
                   canvasOwner, inputVars, pageVars, late, e2e, snap>>

\* setupClickHandler: getMetadata settled, the picked handler is registered
SetupResolved(r) ==
    /\ runSetup[r] = "awaiting"
    /\ runSetup' = [runSetup EXCEPT ![r] = "registered"]
    /\ late' = Late(r, {"picked"})
    /\ UNCHANGED <<engineVars, refVars, ledgerVars, statusVars, mounted, runPc,
                   runMounted, runEngine, runAttempts, listeners, canvasOwner,
                   inputVars, pageVars, calls, e2e, snap>>

\* the cleanup of the init effect
Cleanup ==
    /\ engineStatus' = IF viewerRef # 0
                       THEN [engineStatus EXCEPT ![viewerRef] = "destroyed"]
                       ELSE engineStatus
    /\ viewerRef' = 0
    /\ modelRef' = 0

\* the component is unmounted
Unmount ==
    /\ mounted
    /\ mounted' = FALSE
    /\ runMounted' = [r \in RunIds |-> FALSE]
    /\ Cleanup
    /\ UNCHANGED <<sceneReady, sceneKeys, sceneObjects, caps, ledgerVars,
                   statusVars, runPc, runEngine, runAttempts, runSetup,
                   listeners, canvasOwner, inputVars, pageVars, obsVars>>

\* a dependency of the init effect changed: cleanup, then the effect again
Rerun ==
    /\ mounted
    /\ \E r \in RunIds :
          /\ runPc[r] = "idle"
          /\ \A r2 \in RunIds : runPc[r2] = "idle" => r <= r2
          /\ runMounted' = [r2 \in RunIds |-> r2 = r]
          /\ runPc' = [runPc EXCEPT ![r] = "import"]
    /\ Cleanup
    /\ loading' = TRUE
    /\ error' = "none"
    /\ UNCHANGED <<sceneReady, sceneKeys, sceneObjects, caps, ledgerVars,
                   metadata, mounted, runEngine, runAttempts, runSetup,
                   listeners, canvasOwner, inputVars, pageVars, obsVars>>

\* the calls of the operation table
TableOps ==
    {[name |-> "selectElements", ids |-> <<ElA>>, arg |-> "ids"],
     [name |-> "hideElements", ids |-> <<ElA>>, arg |-> "ids"],
     [name |-> "showElements", ids |-> <<ElA>>, arg |-> "ids"],
     [name |-> "isolateElements", ids |-> <<ElA>>, arg |-> "ids"],
     [name |-> "isolateElements", ids |-> <<>>, arg |-> "null"],
     [name |-> "setXrayMode", ids |-> <<>>, arg |-> "on"],
     [name |-> "setDisplayMode", ids |-> <<>>, arg |-> "wireframe"],
     [name |-> "fitToView", ids |-> <<>>, arg |-> "none"]}

ApplyOp(vs, op) ==
    CASE op.name = "selectElements" -> SelectElementsOp(vs, op.ids)
      [] op.name = "hideElements" -> HideElementsOp(vs, op.ids)
      [] op.name = "showElements" -> ShowElementsOp(vs, op.ids)
      [] op.name = "isolateElements" ->
            IsolateElementsOp(vs, IF op.arg = "null" THEN NullIsolation
                                  ELSE [isNull |-> FALSE, ids |-> op.ids,
                                        sameRef |-> FALSE])
      [] op.name = "setXrayMode" -> SetXrayModeOp(vs, op.arg = "on")
      [] op.name = "setDisplayMode" -> SetDisplayModeOp(vs, op.arg)
      [] OTHER -> FitToViewOp(vs)

\* a holder of the ref of Viewer3D calls an operation of the table
TableCall(op) ==
    /\ Commit(ApplyOp(Cur, op))
    /\ UNCHANGED <<opFrame, pageVars, obsVars>>

\* the component has mounted and its init effect has run once
InitLifecycle ==
    /\ engineStatus = [e \in EngineIds |-> "none"]
    /\ sceneReady = [e \in EngineIds |-> FALSE]
    /\ sceneKeys = [e \in EngineIds |-> <<>>]
    /\ sceneObjects = [e \in EngineIds |-> [k \in {} |-> NewObject(NullColor)]]
    /\ caps = FullCaps("array")
    /\ viewerRef = 0
    /\ modelRef = 0
    /\ previouslySelectedEntities = <<>>
    /\ originalColors = EmptyLedger
    /\ opThrew = FALSE
    /\ lastCall = NoCall
    /\ loading = TRUE
    /\ error = "none"
    /\ metadata = FALSE
    /\ mounted = TRUE
    /\ runPc = [r \in RunIds |-> IF r = 1 THEN "import" ELSE "idle"]
    /\ runMounted = [r \in RunIds |-> r = 1]
    /\ runEngine = [r \in RunIds |-> 0]
    /\ runAttempts = [r \in RunIds |-> 0]
    /\ runSetup = [r \in RunIds |-> "none"]
    /\ isCtrlPressed = [r \in RunIds |-> FALSE]
    /\ listeners = {}
    /\ canvasOwner = 0
    /\ selectedElementId = NoElement
    /\ selectedElementIds = <<>>
    /\ hiddenElementIds = <<>>
    /\ isolatedElementIds = NullIsolation
    /\ xrayMode = FALSE
    /\ displayMode = "shaded"
    /\ pageViewerRef = FALSE
    /\ pageMetadata = TRUE
    /\ dirty = {}
    /\ late = {}
    /\ calls = {}
    /\ e2e = 0
    /\ snap = [objects |-> sceneObjects, ledger |-> EmptyLedger, prev |-> <<>>,
               threw |-> FALSE, last |-> NoCall]

NextLifecycle ==
    \/ \E r \in RunIds, zeroSize, ready \in BOOLEAN : ImportResolved(r, zeroSize, ready)
    \/ \E r \in RunIds, found, ready \in BOOLEAN : RafResolved(r, found, ready)
    \/ \E r \in RunIds, ready \in BOOLEAN : PollTick(r, ready)
    \/ \E r \in RunIds, outcome \in {"ok", "error", "authRedirect"} :
          MetadataResolved(r, outcome)
    \/ \E r \in RunIds, token, hasModels \in BOOLEAN : AuthImported(r, token, hasModels)
    \/ \E r \in RunIds, hasModels \in BOOLEAN : ModelsWaited(r, hasModels)
    \/ \E r \in RunIds, outcome \in {"model", "null", "reject"}, attachOk \in BOOLEAN :
          LoadResolved(r, outcome, attachOk)
    \/ \E r \in RunIds, probe \in ProbeOutcomes : ProbeResolved(r, probe)
    \/ \E r \in RunIds : SetupResolved(r)
    \/ Unmount
    \/ Rerun

SpecLifecycle == InitLifecycle /\ [][NextLifecycle]_vars

\* the run the component currently belongs to, if any
LiveRuns == {r \in RunIds : runMounted[r]}

\* C9: no continuation of a run whose effect was cleaned up writes viewerRef
\* or modelRef, attaches listeners or invokes a callback, and the refs hold
\* nothing but what the live run has put there: null after an unmount.
C9_NoLateContinuation ==
    /\ late = {}
    /\ ~mounted => viewerRef = 0 /\ modelRef = 0
    /\ viewerRef # 0 => \E r \in LiveRuns : runEngine[r] = viewerRef
    /\ modelRef # 0 => \E r \in LiveRuns : runEngine[r] = modelRef

\* C9 for the continuations the code guards with isMounted: a run whose
\* effect was cleaned up sets no loading, error or metadata state and calls
\* none of onLoad, onRefReady, onError
C9_GuardedContinuations ==
    [][\A r \in RunIds :
          ~runMounted[r] /\ runPc[r] # "idle" /\ runPc'[r] # runPc[r] =>
              /\ loading' = loading
              /\ error' = error
              /\ metadata' = metadata
              /\ calls' \ calls \subseteq {<<"onViewerReady", r>>}]_vars

(***************************************************************************)
(* SpecTable: calls of the operation table during bring-up, re-run and     *)
(* teardown, with every await of the bring-up succeeding.                  *)
(***************************************************************************)
NextTable ==
    \/ \E r \in RunIds : ImportResolved(r, FALSE, TRUE)
    \/ \E r \in RunIds : MetadataResolved(r, "ok")
    \/ \E r \in RunIds : AuthImported(r, TRUE, TRUE)
    \/ \E r \in RunIds : LoadResolved(r, "model", TRUE)
    \/ Unmount
    \/ Rerun
    \/ \E op \in TableOps : TableCall(op)

SpecTable == InitLifecycle /\ [][NextTable]_vars

\* the bring-up of the live run has loaded its model
ModelLoaded == \E r \in LiveRuns : runPc[r] = "done"

\* op leaves the engine objects, the ledger and the previously-selected
\* list as they are
NoMutation(op) ==
    LET after == ApplyOp(Cur, op)
    IN /\ after.objects = sceneObjects
       /\ after.ledger = originalColors
       /\ after.prev = previouslySelectedEntities

\* C10: an operation of the table called before the model of the live
\* bring-up is loaded, or after teardown, mutates no engine object, nor the
\* ledger, nor the previously-selected list.
C10_NoOpUntilLoaded ==
    ~ModelLoaded => \A op \in TableOps : NoMutation(op)

\* C10 for the readiness check itself: with viewerRef or modelRef null, and
\* after an unmount, every operation returns without a mutation
C10_GuardedByRefs ==
    (viewerRef = 0 \/ modelRef = 0 \/ ~mounted) => \A op \in TableOps : NoMutation(op)


(***************************************************************************)
(* SpecConverge: the page dispatches state changes while the bring-up is   *)
(* still under way and after it; every await of the bring-up succeeds.     *)
(***************************************************************************)
\* handleXrayToggle
HandleXrayToggle ==
    /\ xrayMode' = ~xrayMode
    /\ Commit(ViaRef(Cur, SetXrayModeOp(Cur, ~xrayMode)))
    /\ dirty' = dirty \cup {"xray"}
    /\ UNCHANGED <<opFrame, selectedElementId, selectedElementIds,
                   hiddenElementIds, isolatedElementIds, displayMode,
                   pageViewerRef, pageMetadata>>

\* handleDisplayModeChange(mode)
HandleDisplayModeChange(mode) ==
    /\ displayMode' = mode
    /\ Commit(ViaRef(Cur, SetDisplayModeOp(Cur, mode)))
    /\ dirty' = dirty \cup (IF mode = displayMode THEN {} ELSE {"mode"})
    /\ UNCHANGED <<opFrame, selectedElementId, selectedElementIds,
                   hiddenElementIds, isolatedElementIds, xrayMode,
                   pageViewerRef, pageMetadata>>

ToolbarXray == dirty = {} /\ HandleXrayToggle /\ OffScenario

ToolbarDisplayMode(mode) == dirty = {} /\ HandleDisplayModeChange(mode) /\ OffScenario

DisplayModes == {"wireframe", "solid", "shaded"}

NextConverge ==
    \/ \E r \in RunIds : ImportResolved(r, FALSE, TRUE)
    \/ \E r \in RunIds : MetadataResolved(r, "ok")
    \/ \E r \in RunIds : AuthImported(r, TRUE, TRUE)
    \/ \E r \in RunIds : LoadResolved(r, "model", TRUE)
    \/ \E ctrl \in BOOLEAN : TreeClick(ElA, ctrl)
    \/ TreeVisibilityToggle(ElA)
    \/ ToolbarXray
    \/ \E mode \in DisplayModes : ToolbarDisplayMode(mode)
    \/ RunEffects

SpecConverge == InitLifecycle /\ [][NextConverge]_vars

\* keys of the engine-selected objects of the current engine
SelectedKeys == {k \in Range(sceneKeys[viewerRef]) : sceneObjects[viewerRef][k].selected}

\* keys the lookup of the operations resolves a list of element ids to
ResolvedKeys(elementIds) ==
    {h[2] : h \in Range(ResolveAll(viewerRef, elementIds))}

SelectionApplied == SelectedKeys = ResolvedKeys(selectedElementIds)

VisibilityApplied ==
    IF isolatedElementIds.isNull
    THEN VisibleKeys = Range(sceneKeys[viewerRef]) \ ResolvedKeys(hiddenElementIds)
    ELSE VisibleKeys = CompositeKeysOf(isolatedElementIds.ids)

XrayApplied ==
    \A k \in Range(sceneKeys[viewerRef]) : sceneObjects[viewerRef][k].xrayed = xrayMode

DisplayModeApplied ==
    displayMode = "wireframe" =>
        \A k \in Range(sceneKeys[viewerRef]) : sceneObjects[viewerRef][k].edges

\* C11: once the model is loaded and every synchronisation effect whose
\* dependencies changed has run, the engine shows the ViewerState: selection,
\* visibility, x-ray and display mode, also for state set before the load.
C11_ConvergedWhenQuiescent ==
    ModelLoaded /\ dirty = {} =>
        /\ SelectionApplied
        /\ VisibilityApplied
        /\ XrayApplied
        /\ DisplayModeApplied

(***************************************************************************)
(* SpecCaps: the operation table and the synchronisation effects on a      *)
(* loaded model, over engine builds that lack some of the capabilities     *)
(* the component probes for or calls.                                      *)
(***************************************************************************)
\* engine builds: each per-object setter and each batch mutator present or not
CapsSet ==
    {[FullCaps("array") EXCEPT !.colorizeKind = ck, !.visibleKind = vk,
                               !.setObjectsSelected = sel,
                               !.setObjectsVisible = vis,
                               !.setObjectsColorized = col,
                               !.setObjectsXRayed = xr,
                               !.setObjectsEdges = ed] :
        ck \in {"prop", "fn", "none"}, vk \in {"prop", "none"},
        sel \in BOOLEAN, vis \in BOOLEAN, col \in BOOLEAN, xr \in BOOLEAN,
        ed \in BOOLEAN}

InitCaps ==
    LoadedInit(LoadedScene, CapsSet, {[k \in Range(LoadedScene) |-> TintColor]})

NextCaps ==
    \/ \E op \in TableOps : TableCall(op)
    \/ \E ids \in {<<>>, <<ElA>>} : PropsSetHidden(ids)
    \/ RunEffects

SpecCaps == InitCaps /\ [][NextCaps]_vars

\* C12: whatever capabilities the engine lacks, no operation of the table
\* and no synchronisation effect raises an exception to its caller.
C12_NoThrow == ~opThrew

\* C12 for the builds that have scene.setObjectsSelected and
\* scene.setObjectsVisible: nothing raises, whatever else is missing
C12_NoThrowWithSelectedAndVisible ==
    caps.setObjectsSelected /\ caps.setObjectsVisible => ~opThrew

(***************************************************************************)
(* Terminal states of the bring-up (SpecLifecycle, SpecLifecycleFair).     *)
(***************************************************************************)
\* initViewer of run r has returned or thrown into its catch block
Ended(r) == runPc[r] \in {"done", "failed", "returned"}

\* every continuation of a suspended run is eventually resumed: each await
\* of initViewer settles
Continue ==
    \/ \E r \in RunIds, zeroSize, ready \in BOOLEAN : ImportResolved(r, zeroSize, ready)
    \/ \E r \in RunIds, found, ready \in BOOLEAN : RafResolved(r, found, ready)
    \/ \E r \in RunIds, ready \in BOOLEAN : PollTick(r, ready)
    \/ \E r \in RunIds, outcome \in {"ok", "error", "authRedirect"} :
          MetadataResolved(r, outcome)
    \/ \E r \in RunIds, token, hasModels \in BOOLEAN : AuthImported(r, token, hasModels)
    \/ \E r \in RunIds, hasModels \in BOOLEAN : ModelsWaited(r, hasModels)
    \/ \E r \in RunIds, outcome \in {"model", "null", "reject"}, attachOk \in BOOLEAN :
          LoadResolved(r, outcome, attachOk)
    \/ \E r \in RunIds, probe \in ProbeOutcomes : ProbeResolved(r, probe)

SpecLifecycleFair == SpecLifecycle /\ WF_vars(Continue)

\* C13: a bring-up of the mounted component that has ended has ended loaded
\* (loading false, no error) or failed (loading false, error set); none ends
\* with loading still true.
C13_EndsLoadedOrFailed ==
    \A r \in LiveRuns :
        Ended(r) => /\ ~loading
                    /\ runPc[r] \in {"done", "failed"}
                    /\ runPc[r] = "done" <=> error = "none"

\* C13 for the paths that end in the success branch or in the catch block
C13_DoneOrFailedNotLoading ==
    \A r \in LiveRuns :
        runPc[r] \in {"done", "failed"} =>
            ~loading /\ (runPc[r] = "done" <=> error = "none")

\* C13, progress: with every await settling, every run of initViewer ends
C13_EveryRunEnds ==
    \A r \in RunIds : (runPc[r] # "idle") ~> Ended(r)

(***************************************************************************)
(* SpecPoll: waitForViewerReady (lines 118-146), one checkReady per step.  *)
(***************************************************************************)
\* a checkReady that gives up one attempt later
CheckOutcomeLate(attempts, ready) ==
    IF ready THEN "resolve"
    ELSE IF attempts > MaxAttempts THEN "reject"
    ELSE "again"

\* what checkReady does once it has counted its attempt
CheckOutcome(attempts, ready) ==
    IF ready THEN "resolve"
    ELSE IF attempts >= MaxAttempts THEN "reject"
    ELSE "again"

\* checkReady, called by the 100 ms timeout the previous check has set
CheckReady(r, ready) ==
    /\ runPc[r] = "poll"
    /\ LET attempts == runAttempts[r] + 1
           outcome == CheckOutcome(attempts, ready)
       IN /\ runAttempts' = [runAttempts EXCEPT ![r] = attempts]
          /\ IF outcome = "resolve"
             THEN /\ sceneReady' = [sceneReady EXCEPT ![runEngine[r]] = TRUE]
                  /\ runPc' = [runPc EXCEPT ![r] = "metadata"]
                  /\ UNCHANGED <<statusVars, calls>>
             ELSE IF outcome = "reject"
             THEN Catch(r, "timeout") /\ UNCHANGED <<sceneReady, metadata>>
             ELSE UNCHANGED <<sceneReady, statusVars, calls, runPc>>
    /\ UNCHANGED <<engineStatus, sceneKeys, sceneObjects, caps, refVars,
                   ledgerVars, mounted, runMounted, runEngine, runSetup,
                   listeners, canvasOwner, inputVars, pageVars, late, e2e, snap>>

NextPoll ==
    \/ \E r \in RunIds, zeroSize, ready \in BOOLEAN : ImportResolved(r, zeroSize, ready)
    \/ \E r \in RunIds, found, ready \in BOOLEAN : RafResolved(r, found, ready)
    \/ \E r \in RunIds, ready \in BOOLEAN : CheckReady(r, ready)
    \/ Unmount
    \/ Rerun

SpecPoll == InitLifecycle /\ [][NextPoll]_vars

\* C14: waitForViewerReady makes at most 50 checks; a check is pending only
\* while every check so far has failed and fewer than 50 were made; the
\* failure of the 50th check takes the run to the catch block, with the
\* timeout error and loading false if it is still the live run; and a check
\* is made only by a run that is still waiting, one attempt at a time.
C14_BoundedPolling ==
    /\ [](\A r \in RunIds :
            /\ runAttempts[r] <= MaxAttempts
            /\ runPc[r] = "poll" =>
                  runAttempts[r] < MaxAttempts /\ ~sceneReady[runEngine[r]]
            /\ (runEngine[r] # 0 /\ runPc[r] # "poll" /\ ~sceneReady[runEngine[r]]) =>
                  /\ runAttempts[r] = MaxAttempts
                  /\ runPc[r] = "failed"
                  /\ r \in LiveRuns => error = "timeout" /\ ~loading)
    /\ [][\A r \in RunIds :
            runAttempts'[r] # runAttempts[r] =>
                /\ runPc[r] \in {"import", "raf", "poll"}
                /\ runAttempts'[r] = runAttempts[r] + 1]_vars

\* the 50th check of the live run has failed
C14_Witness ==
    /\ runPc[1] = "failed"
    /\ runAttempts[1] = MaxAttempts
    /\ 1 \in LiveRuns
    /\ error = "timeout"
    /\ ~loading

(***************************************************************************)
(* Handles kept across a teardown (SpecTable).                             *)
(***************************************************************************)
\* C15: after the cleanup of the init effect the previously-selected list
\* and the ledger hold no handle and no record of the destroyed instance.
C15_NoStaleHandles ==
    /\ \A i \in 1..Len(previouslySelectedEntities) :
          engineStatus[previouslySelectedEntities[i][1]] # "destroyed"
    /\ viewerRef = 0 => DOMAIN originalColors = {}

\* C15, the use of a kept handle: no call of the operation table changes an
\* object of a destroyed engine
C15_NoStaleMutation ==
    [][runPc' = runPc =>
          \A e \in EngineIds :
              engineStatus[e] = "destroyed" => sceneObjects'[e] = sceneObjects[e]]_vars

\* C15 for the two refs: the cleanup itself leaves viewerRef and modelRef null
C15_CleanupNullsRefs ==
    [][runMounted' # runMounted => viewerRef' = 0 /\ modelRef' = 0]_vars

(***************************************************************************)
(* The load that returns no model (SpecLifecycle).                         *)
(***************************************************************************)
\* C16: when load() returns null the run probes the asset URL and then ends
\* in the catch block, never in the loaded state: with the "loader returned
\* null" error when the probe answers ok, with the "asset not accessible"
\* error when the probe answers non-ok or fails.
C16_NullLoadFails ==
    [][\A r \in LiveRuns :
          /\ (\E a \in BOOLEAN : LoadResolved(r, "null", a)) =>
                runPc'[r] = "probe" /\ modelRef' = modelRef /\ loading' = loading
          /\ ProbeResolved(r, "ok") =>
                runPc'[r] = "failed" /\ error' = "null" /\ ~loading'
          /\ (ProbeResolved(r, "notOk") \/ ProbeResolved(r, "throws")) =>
                runPc'[r] = "failed" /\ error' = "xkt" /\ ~loading'
          /\ runPc[r] \in {"probe", "failed"} => runPc'[r] # "done"]_vars

\* the live run failed with the "loader returned null" error, which only an
\* ok probe after a null load produces
C16_Witness ==
    \E r \in LiveRuns : runPc[r] = "failed" /\ error = "null" /\ ~loading

(***************************************************************************)
(* Handing the operation table to the caller (SpecLifecycle).              *)
(***************************************************************************)
RefReadyCalled(r) == <<"onRefReady", r>> \in calls

\* C17: onRefReady is called only in the step in which a run that is still
\* mounted gets its model (modelRef is set in that step and the run ends
\* loaded); a run for which it was called stays loaded, so it is called at
\* most once per run, never in a failed run and never after the unmount.
C17_RefReadyOnlyAfterLoad ==
    /\ [](\A r \in RunIds : RefReadyCalled(r) => runPc[r] = "done")
    /\ [][\A r \in RunIds :
             /\ RefReadyCalled(r)' /\ ~RefReadyCalled(r) =>
                   /\ runPc[r] = "load" /\ runPc'[r] = "done"
                   /\ runMounted[r] /\ r \in LiveRuns
                   /\ modelRef' = runEngine[r] /\ modelRef' # 0
             /\ runPc[r] \in {"done", "failed", "returned"} => runPc'[r] = runPc[r]]_vars

\* the table was handed over by a run that has since been unmounted, while
\* a later run failed without handing anything over
C17_Witness ==
    \E r, q \in RunIds :
        /\ RefReadyCalled(r) /\ ~runMounted[r]
        /\ runPc[q] = "failed" /\ ~RefReadyCalled(q)

(***************************************************************************)
(* handleElementSelect as a function of the selection (Spec).              *)
(***************************************************************************)
\* C18: for an element of the metadata, handleElementSelect without modifier
\* gives the list [id]; with the modifier and id selected it gives the list
\* without id, the others in their order; with the modifier and id absent it
\* gives the list with id appended.  The empty id gives the empty list.
C18_ElementSelect ==
    /\ \A ctrl \in BOOLEAN : ElementSelectResult(NoElement, ctrl)[2] = <<>>
    /\ \A id \in KnownElements :
          /\ ElementSelectResult(id, FALSE)[2] = <<id>>
          /\ IF \E i \in 1..Len(selectedElementIds) : selectedElementIds[i] = id
             THEN ElementSelectResult(id, TRUE)[2]
                     = SelectSeq(selectedElementIds, LAMBDA x : x # id)
             ELSE ElementSelectResult(id, TRUE)[2]
                     = selectedElementIds \o <<id>>

\* [A, C] with A as the primary element: B was toggled off [A, B, C], which
\* the modifier click on C had appended to [A, B]
C18_Witness ==
    /\ selectedElementIds = <<ElA, ElC>>
    /\ selectedElementId = ElA

(***************************************************************************)
(* SpecSuffix: the lookup by key suffix, over scenes in which the objects  *)
(* of element A carry keys of other models.                                *)
(***************************************************************************)
ThirdModelId == <<"m3">>

SuffixKeyForms == {CompositeKey(OtherModelId, ElA), CompositeKey(ThirdModelId, ElA),
                   CompositeKey(ModelId, ElB), ElC}

\* the registries of at most MaxKeys objects, in every key order
SuffixScenes ==
    {q \in SeqsUpTo(SuffixKeyForms, MaxKeys) :
        \A i, j \in 1..Len(q) : q[i] = q[j] => i = j}

InitSuffix ==
    \E keys \in SuffixScenes :
        LoadedInit(keys, {FullCaps("array")}, {[k \in Range(keys) |-> NullColor]})

NextSuffix ==
    \/ \E ids \in {<<>>, <<ElA>>, <<ElB>>} : CallSelectElements(ids)
    \/ \E ids \in {<<>>, <<ElA>>, <<ElC>>} : CallHideElements(ids)
    \/ \E ids \in {<<>>, <<ElA>>, <<ElC>>} : CallShowElements(ids)

SpecSuffix == InitSuffix /\ [][NextSuffix]_vars

\* the live keys that end in "#" + elementId
SuffixKeysOf(elementId) ==
    {k \in Range(LiveKeys) : EndsWith(k, <<Hash>> \o elementId)}

\* C19: when element A is found by the suffix scheme, every object whose
\* key ends in "#A" is resolved, so the objects of A are selected, hidden
\* and shown together.
C19_AllSuffixMatches ==
    /\ \A k1, k2 \in SuffixKeysOf(ElA) :
          /\ sceneObjects[viewerRef][k1].visible = sceneObjects[viewerRef][k2].visible
          /\ sceneObjects[viewerRef][k1].selected = sceneObjects[viewerRef][k2].selected

\* the lookup of A by suffix returns a key that ends in "#A", the first one
\* in the key order of the registry, whenever there is such a key
C19_FirstSuffixMatch ==
    SuffixKeysOf(ElA) # {} =>
        /\ Len(ResolvedA) = 1
        /\ ResolvedA[1] \in SuffixKeysOf(ElA)
        /\ \A i \in 1..Len(LiveKeys) :
              LiveKeys[i] = ResolvedA[1] =>
                 \A j \in 1..(i - 1) : LiveKeys[j] \notin SuffixKeysOf(ElA)

(***************************************************************************)
(* SpecSelection: the entry points of the page's selection, with the       *)
(* metadata loaded, on a model that also has an object of an element the   *)
(* metadata does not list, and with a saved group that holds such an id.   *)
(***************************************************************************)
SelectionScene ==
    <<CompositeKey(ModelId, ElA), CompositeKey(ModelId, ElB), CompositeKey(ModelId, ElD)>>

\* group.element_ids of the groups the server returned for the file
SavedGroups == Groups \cup {<<ElA, ElD>>}

InitSelection ==
    LoadedInit(SelectionScene, {FullCaps("array")},
               {[k \in Range(SelectionScene) |-> NullColor]})

NextSelection ==
    \/ KeyDown
    \/ KeyUp
    \/ \E r \in RunIds, ctrl \in BOOLEAN : CanvasMouseDown(r, ctrl)
    \/ \E r \in RunIds, hit \in Range(SelectionScene) \cup {NoHit} : Picked(r, hit)
    \/ \E id \in {ElA, ElB}, ctrl \in BOOLEAN : TreeClick(id, ctrl)
    \/ \E ids \in SavedGroups : GroupApply(ids)
    \/ RunEffects

SpecSelection == InitSelection /\ [][NextSelection]_vars

\* C20: with the metadata loaded, every selected id is an element of the
\* metadata.
C20_SelectionKnown ==
    pageMetadata => \A i \in 1..Len(selectedElementIds) :
                        selectedElementIds[i] \in KnownElements

\* handleElementSelect keeps the selection within the metadata: a click on
\* an object whose element the metadata does not list changes nothing
C20_ElementSelectKeepsKnown ==
    [][\A r \in RunIds, hit \in Range(SelectionScene) :
          /\ pageMetadata
          /\ Picked(r, hit)
          /\ Range(selectedElementIds) \subseteq KnownElements
          => /\ Range(selectedElementIds') \subseteq KnownElements
             /\ PickedElementId(hit) \notin KnownElements
                   => selectedElementIds' = selectedElementIds]_vars

(***************************************************************************)
(* SpecOps: every operation of the table, with the arguments a caller can  *)
(* pass, on a loaded model whose objects carry the three key forms.        *)
(***************************************************************************)
\* the calls of the operation table and their arguments; D has no object
OpCalls ==
    {[name |-> "selectElements", ids |-> ids, arg |-> "ids"] :
         ids \in {<<>>, <<ElA>>, <<ElD, ElA>>, <<ElB, ElC>>}}
    \cup {[name |-> n, ids |-> ids, arg |-> "ids"] :
         n \in {"hideElements", "showElements"},
         ids \in {<<ElA>>, <<ElD, ElB>>}}
    \cup {[name |-> "isolateElements", ids |-> ids, arg |-> "ids"] :
         ids \in {<<ElA>>, <<ElB, ElC>>}}
    \cup {[name |-> "isolateElements", ids |-> <<>>, arg |-> "null"]}
    \cup {[name |-> "setXrayMode", ids |-> <<>>, arg |-> a] : a \in {"on", "off"}}
    \cup {[name |-> "setDisplayMode", ids |-> <<>>, arg |-> m] : m \in DisplayModes}

InitOps ==
    LoadedInit(MixedScene, {FullCaps("array")}, MixedColorings)

NextOps == \E op \in OpCalls : TableCall(op)

SpecOps == InitOps /\ [][NextOps]_vars

\* the calls of the dimensions other than selection
DimensionCalls == {op \in OpCalls : op.name # "selectElements"}

\* C21: hideElements, showElements, isolateElements, setXrayMode and
\* setDisplayMode called twice in succession with the same argument leave
\* every object (visibility, colour, x-ray, edges, selected flag) and the
\* ledger as one call leaves them.
C21_DuplicateDispatch ==
    \A op \in DimensionCalls :
        LET once == ApplyOp(Cur, op)
            twice == ApplyOp(once, op)
        IN /\ twice.objects = once.objects
           /\ twice.ledger = once.ledger
           /\ twice.prev = once.prev

\* hideElements has run on a model with a selected object and has hidden
\* an object
C21_Witness ==
    /\ lastCall.op = "hideElements" /\ lastCall.ran
    /\ \E k \in Range(LiveKeys) : sceneObjects[viewerRef][k].selected
    /\ \E k \in Range(LiveKeys) : ~sceneObjects[viewerRef][k].visible
    /\ originalColors # EmptyLedger

(***************************************************************************)
(* Order of calls of different dimensions (SpecOps).                       *)
(***************************************************************************)
CallsOf(name) == {op \in OpCalls : op.name = name}

ClearSelection == [name |-> "selectElements", ids |-> <<>>, arg |-> "ids"]

\* the objects and the ledger agree after the calls a, b in both orders,
\* and still agree after a following selectElements([])
Commute(a, b) ==
    LET ab == ApplyOp(ApplyOp(Cur, a), b)
        ba == ApplyOp(ApplyOp(Cur, b), a)
    IN /\ ab.objects = ba.objects
       /\ ab.ledger = ba.ledger
       /\ ApplyOp(ab, ClearSelection).objects = ApplyOp(ba, ClearSelection).objects
       /\ ApplyOp(ab, ClearSelection).ledger = ApplyOp(ba, ClearSelection).ledger

\* C22: selectElements and setDisplayMode, selectElements and setXrayMode,
\* hideElements and setDisplayMode give the same objects and the same ledger
\* in either order, also after a following selectElements([]).
C22_DimensionsCommute ==
    /\ \A a \in CallsOf("selectElements"), b \in CallsOf("setDisplayMode") : Commute(a, b)
    /\ \A a \in CallsOf("selectElements"), b \in CallsOf("setXrayMode") : Commute(a, b)
    /\ \A a \in CallsOf("hideElements"), b \in CallsOf("setDisplayMode") : Commute(a, b)

\* C22 for selectElements and setXrayMode
C22_SelectCommutesWithXray ==
    \A a \in CallsOf("selectElements"), b \in CallsOf("setXrayMode") : Commute(a, b)

\* C22 for hideElements and setDisplayMode
C22_HideCommutesWithDisplayMode ==
    \A a \in CallsOf("hideElements"), b \in CallsOf("setDisplayMode") : Commute(a, b)

(***************************************************************************)
(* Batches with ids that have no object (SpecOps).                         *)
(***************************************************************************)
\* the calls whose list names D, which has no object in the scene
CallsWithMiss == {op \in OpCalls : \E i \in 1..Len(op.ids) : op.ids[i] = ElD}

\* the objects of the ids of the list that do have one
FoundKeys(ids) ==
    {k \in Range(LiveKeys) :
        \E i \in 1..Len(ids) : ResolveEntity(LiveKeys, ModelId, ids[i]) = <<k>>}

\* C23: selectElements, hideElements and showElements given a list with an
\* id that has no object end normally, have their effect on the objects of
\* all other ids of the list, exactly as without the missing id, and add no
\* ledger record for the missing id.
C23_MissNotFatal ==
    \A op \in CallsWithMiss :
        LET r == ApplyOp(Cur, op)
            others == [op EXCEPT !.ids = SelectSeq(@, LAMBDA x : x # ElD)]
            o == ApplyOp(Cur, others)
        IN /\ ~r.threw
           /\ r.last.ran
           /\ r.objects = o.objects /\ r.ledger = o.ledger /\ r.prev = o.prev
           /\ DOMAIN r.ledger \subseteq Range(LiveKeys)
           /\ FoundKeys(op.ids) # {}
           /\ \A k \in FoundKeys(op.ids) :
                 CASE op.name = "selectElements" ->
                         /\ r.objects[viewerRef][k].selected
                         /\ r.objects[viewerRef][k].colorize = BlueColor
                         /\ k \in DOMAIN r.ledger
                   [] op.name = "hideElements" -> ~r.objects[viewerRef][k].visible
                   [] OTHER -> r.objects[viewerRef][k].visible

\* hideElements(['D','B']) has hidden B: no other call hides B and leaves
\* the object of C visible
C23_Witness ==
    /\ lastCall.op = "hideElements" /\ lastCall.ran
    /\ ~sceneObjects[viewerRef][ElB].visible
    /\ sceneObjects[viewerRef][CompositeKey(OtherModelId, ElC)].visible

(***************************************************************************)
(* SpecHidden: the parent changes hiddenElementIds, with no isolation, on  *)
(* a loaded model whose objects carry the three key forms.                 *)
(***************************************************************************)
InitHidden ==
    LoadedInit(MixedScene, {FullCaps("array")}, MixedColorings)

NextHidden ==
    \/ \E ids \in IdLists : PropsSetHidden(ids)
    \/ RunEffects

SpecHidden == InitHidden /\ [][NextHidden]_vars

\* the object under key k is invisible exactly if its element is hidden
HiddenIffListed(k) ==
    ~sceneObjects[viewerRef][k].visible
        <=> (\E i \in 1..Len(hiddenElementIds) :
                hiddenElementIds[i] = PickedElementId(k))

\* C24: with no isolation, on a loaded model, once the visibility effect has
\* run an object is invisible exactly if its element id is in
\* hiddenElementIds, whichever form its key has.
C24_HiddenPartition ==
    ModelLoaded /\ isolatedElementIds.isNull /\ dirty = {} =>
        \A k \in Range(LiveKeys) : HiddenIffListed(k)

\* C24 for the objects whose key is the composite key of the current model
C24_HiddenPartitionComposite ==
    ModelLoaded /\ isolatedElementIds.isNull /\ dirty = {} =>
        \A k \in Range(LiveKeys) :
            (\E id \in KnownElements : k = CompositeKey(ModelId, id))
                => HiddenIffListed(k)

(***************************************************************************)
(* isolateElements (SpecOps).                                              *)
(***************************************************************************)
\* keys of the visible objects of the current engine in a viewer-side state
VisibleIn(vs) == {k \in Range(LiveKeys) : vs.objects[viewerRef][k].visible}

\* C25: isolateElements(ids) leaves visible exactly the objects the lookup
\* by composite key, bare key or suffix finds for ids; isolateElements(null)
\* leaves every object visible.
C25_IsolateResolved ==
    \A op \in CallsOf("isolateElements") :
        VisibleIn(ApplyOp(Cur, op)) =
            IF op.arg = "null" THEN Range(LiveKeys) ELSE FoundKeys(op.ids)

\* isolateElements(ids) leaves visible exactly the objects under the
\* composite keys of ids; isolateElements(null) leaves every object visible
C25_IsolateComposite ==
    \A op \in CallsOf("isolateElements") :
        VisibleIn(ApplyOp(Cur, op)) =
            IF op.arg = "null" THEN Range(LiveKeys) ELSE CompositeKeysOf(op.ids)

(***************************************************************************)
(* setDisplayMode and setXrayMode (SpecOps).                               *)
(***************************************************************************)
Obj(k) == sceneObjects[viewerRef][k]

\* C26: after setDisplayMode('wireframe') every object has edges and every
\* non-selected object is gray; after 'solid' or 'shaded' no object has
\* edges and every non-selected object has no tint; in all three cases every
\* engine-selected object has the highlight colour.
C26_DisplayModePost ==
    lastCall.op = "setDisplayMode" /\ lastCall.ran =>
        \A k \in Range(LiveKeys) :
            /\ Obj(k).edges <=> lastCall.arg = "wireframe"
            /\ Obj(k).selected => Obj(k).colorize = BlueColor
            /\ ~Obj(k).selected =>
                  Obj(k).colorize = (IF lastCall.arg = "wireframe"
                                     THEN <<500, 500, 500>> ELSE <<>>)

\* setDisplayMode('wireframe') has run with A selected and C, which the
\* model tints, not selected
C26_Witness ==
    /\ lastCall = [op |-> "setDisplayMode", arg |-> "wireframe", ran |-> TRUE]
    /\ Obj(CompositeKey(ModelId, ElA)).selected
    /\ ~Obj(CompositeKey(OtherModelId, ElC)).selected
    /\ Obj(CompositeKey(OtherModelId, ElC)).colorize = <<500, 500, 500>>

\* C27: after setXrayMode(enabled) every object has its x-ray flag equal to
\* enabled; after setXrayMode(false) every engine-selected object has the
\* highlight colour; no call of setXrayMode changes an object's visibility.
C27_XrayPost ==
    /\ lastCall.op = "setXrayMode" /\ lastCall.ran =>
          \A k \in Range(LiveKeys) :
              /\ Obj(k).xrayed <=> lastCall.arg = "on"
              /\ lastCall.arg = "off" /\ Obj(k).selected
                    => Obj(k).colorize = BlueColor
    /\ \A op \in CallsOf("setXrayMode") :
          VisibleIn(ApplyOp(Cur, op)) = VisibleIn(Cur)

\* setXrayMode(true) has run on a model with a hidden and a visible object,
\* neither of them selected
C27_Witness ==
    /\ lastCall = [op |-> "setXrayMode", arg |-> "on", ran |-> TRUE]
    /\ ~Obj(ElB).visible /\ ~Obj(ElB).selected /\ Obj(ElB).xrayed
    /\ Obj(CompositeKey(ModelId, ElA)).visible
    /\ Obj(CompositeKey(ModelId, ElA)).xrayed

(***************************************************************************)
(* Ownership of the engine instances (SpecLifecycle).                      *)
(***************************************************************************)
LiveEngines == {e \in EngineIds : engineStatus[e] = "live"}

\* C28: at most one engine instance is undestroyed at any time, and the
\* engine a run has created is destroyed once that run is torn down, also
\* when the effect is re-run while a run is in flight.
C28_SingleEngine ==
    /\ \A e1, e2 \in LiveEngines : e1 = e2
    /\ \A r \in RunIds :
          runEngine[r] # 0 /\ ~runMounted[r]
              => engineStatus[runEngine[r]] = "destroyed"

\* the cleanup destroys the engine viewerRef holds at that moment
C28_CleanupDestroysCurrent ==
    [][runMounted' # runMounted /\ viewerRef # 0
          => engineStatus'[viewerRef] = "destroyed"]_vars

(***************************************************************************)
(* The engine-selected flag and the highlight colour (SpecOps).            *)
(***************************************************************************)
\* C29: after any sequence of calls of the operation table an object is
\* engine-selected exactly if it is one of the handles the last
\* selectElements call resolved, and every engine-selected object has the
\* highlight colour.
C29_SelectedLockstep ==
    \A k \in Range(LiveKeys) :
        /\ Obj(k).selected <=>
              (\E i \in 1..Len(previouslySelectedEntities) :
                  previouslySelectedEntities[i] = <<viewerRef, k>>)
        /\ Obj(k).selected => Obj(k).colorize = BlueColor

\* B and C are selected and highlighted, A is not, after a mode switch
\* that followed the selection
C29_Witness ==
    /\ lastCall.op = "setDisplayMode" /\ lastCall.ran
    /\ Obj(ElB).selected /\ Obj(ElB).colorize = BlueColor
    /\ Obj(CompositeKey(OtherModelId, ElC)).selected
    /\ ~Obj(CompositeKey(ModelId, ElA)).selected
    /\ Obj(CompositeKey(ModelId, ElA)).colorize # BlueColor

(***************************************************************************)
(* SpecPick: keyboard, mouse and picked events on a loaded model that has  *)
(* an object whose key ends with the separator.                            *)
(***************************************************************************)
PickScene ==
    <<CompositeKey(ModelId, ElA), ElB, CompositeKey(OtherModelId, ElC),
      ModelId \o <<Hash>>>>

InitPick ==
    LoadedInit(PickScene, {FullCaps("array")},
               [Range(PickScene) -> {NullColor, TintColor}])

NextPick ==
    \/ KeyDown
    \/ KeyUp
    \/ \E r \in RunIds, ctrl \in BOOLEAN : CanvasMouseDown(r, ctrl)
    \/ \E r \in RunIds, hit \in Range(PickScene) \cup {NoHit} : Picked(r, hit)
    \/ RunEffects

SpecPick == InitPick /\ [][NextPick]_vars

\* the part of a key after its last "#": the whole key when it has none
AfterLastHash(key) ==
    LET P == {i \in 1..Len(key) : key[i] = "#"}
    IN IF P = {} THEN key
       ELSE [i \in 1..(Len(key) - (CHOOSE m \in P : \A j \in P : j <= m)) |->
                key[i + (CHOOSE m \in P : \A j \in P : j <= m)]]

\* the modifier flag of a run changes only by a Control/Meta keydown (to
\* true), a keyup (to false) or a mousedown on its canvas
ModifierTracked ==
    [][\A r \in RunIds :
          isCtrlPressed'[r] # isCtrlPressed[r] =>
              \/ KeyDown /\ isCtrlPressed'[r]
              \/ KeyUp /\ ~isCtrlPressed'[r]
              \/ \E ctrl \in BOOLEAN :
                    CanvasMouseDown(r, ctrl) /\ isCtrlPressed'[r] = ctrl]_vars

\* C30 as stated: a picked entity gives onElementSelect with the part of
\* the key after its last "#" and with the tracked modifier state; a pick
\* without entity gives onDeselectAll.
C30_PickedCallAfterHash ==
    \A r \in listeners :
        /\ \A hit \in Range(LiveKeys) :
              PickedCall(r, hit) =
                  [fn |-> "onElementSelect", elementId |-> AfterLastHash(hit),
                   ctrlKey |-> isCtrlPressed[r]]
        /\ PickedCall(r, NoHit).fn = "onDeselectAll"

\* C30: a picked entity gives onElementSelect with the part of the key after
\* its last "#", or with the whole key when that part is empty, and with the
\* tracked modifier state, which only keydown, keyup and mousedown change;
\* a pick without entity gives onDeselectAll and not onElementSelect.
C30_PickedCall ==
    /\ [](\A r \in listeners :
            /\ \A hit \in Range(LiveKeys) :
                  PickedCall(r, hit) =
                      [fn |-> "onElementSelect",
                       elementId |-> IF AfterLastHash(hit) = <<>> THEN hit
                                     ELSE AfterLastHash(hit),
                       ctrlKey |-> isCtrlPressed[r]]
            /\ PickedCall(r, NoHit).fn = "onDeselectAll")
    /\ ModifierTracked

\* B was added to the selection [A] by a pick with the modifier tracked as
\* held
C30_Witness ==
    /\ selectedElementIds = <<ElA, ElB>>
    /\ selectedElementId = ElB
    /\ \E r \in listeners : isCtrlPressed[r]

(***************************************************************************)
(* The capture of selectElements (Spec).                                   *)
(***************************************************************************)
\* the colour the capture stores for an object that carries colour c
StoredFor(c) == IF c # <<>> /\ IsBlueColor(c) THEN <<>> ELSE c

\* C31: selectElements writes a ledger record only for a handle that has
\* none: after a call, also one whose list names an element twice, the
\* record of every resolved handle is the record it had after the previous
\* selection was restored, or else the colour the object carried before the
\* highlight was applied.
C31_FirstWriteWins ==
    \A ids \in IdLists :
        LET s1 == DeselectPrevious(Cur)
            r == SelectElementsOp(Cur, ids)
            ents == ResolveAll(viewerRef, ids)
        IN \A i \in 1..Len(ents) :
              LET id == ents[i][2]
              IN /\ id \in DOMAIN r.ledger
                 /\ r.ledger[id] =
                       IF id \in DOMAIN s1.ledger THEN s1.ledger[id]
                       ELSE StoredFor(s1.objects[viewerRef][id].colorize)

\* selectElements(['A','A']) has run on an object that carried the tint:
\* the handle is twice in the list and its record is the tint
C31_Witness ==
    /\ previouslySelectedEntities = <<<<viewerRef, KeyA>>, <<viewerRef, KeyA>>>>
    /\ KeyA \in DOMAIN originalColors
    /\ originalColors[KeyA] = TintColor
    /\ sceneObjects[viewerRef][KeyA].colorize = BlueColor

(***************************************************************************)
(* The listeners of the bring-up (SpecLifecycle).                          *)
(***************************************************************************)
\* C32: the keydown/keyup/mousedown listeners of a bring-up are removed when
\* the viewer is unmounted or re-initialised: there are never more attached
\* listener sets than live engine instances.
C32_ListenersRemoved == Cardinality(listeners) <= Cardinality(LiveEngines)

\* what the code does: cleanupClickHandlers is the value initViewer's promise
\* resolves to and nothing calls it, so a listener set, once attached, stays
C32_ListenersStay == [][listeners \subseteq listeners']_vars

(***************************************************************************)
(* The page's handlers on the mixed scene (SpecReset): tree clicks, saved  *)
(* groups, the toolbar and the synchronisation effects.                    *)
(***************************************************************************)
ResetColorings ==
    {f \in MixedColorings : f[KeyA] = TintColor /\ f[KeyB] = NearBlueColor}

InitReset == LoadedInit(MixedScene, {FullCaps("array")}, ResetColorings)

NextReset ==
    \/ \E id \in KnownElements, ctrl \in BOOLEAN : TreeClick(id, ctrl)
    \/ \E g \in Groups : GroupApply(g)
    \/ \E id \in KnownElements : TreeVisibilityToggle(id)
    \/ ToolbarHide
    \/ ToolbarShow
    \/ ToolbarIsolate
    \/ ToolbarReset
    \/ RunEffects

SpecReset == InitReset /\ [][NextReset]_vars

\* handleReset has run and its effects have not: it is the only handler that
\* assigns both hiddenElementIds and selectedElementIds
ResetPending == {"vis", "sel"} \subseteq dirty

\* the four ViewerState fields are cleared
PageCleared ==
    /\ hiddenElementIds = <<>>
    /\ selectedElementIds = <<>>
    /\ isolatedElementIds.isNull
    /\ selectedElementId = NoElement

\* every object is visible, none is engine-selected or highlighted, and the
\* ledger and the previously-selected list are empty
EngineCleared ==
    /\ \A k \in Range(sceneKeys[viewerRef]) :
          /\ Obj(k).visible
          /\ ~Obj(k).selected
          /\ ~Obj(k).highlighted
          /\ Obj(k).colorize # BlueColor
    /\ originalColors = EmptyLedger
    /\ previouslySelectedEntities = <<>>

\* C34: handleReset on a loaded model clears the four ViewerState fields, and
\* once its synchronisation effects have run the fields are still cleared,
\* every object is visible, none is engine-selected or highlighted and the
\* ledger is empty.
C34_ResetPost ==
    /\ [][ToolbarReset => (PageCleared /\ ResetPending)']_vars
    /\ [][(ResetPending /\ RunEffects) => (PageCleared /\ EngineCleared)']_vars

\* the effects of a reset of an isolated model have run: the isolation
\* effect, which only a reset triggers with null, made the last call
C34_Witness ==
    /\ dirty = {}
    /\ lastCall = [op |-> "isolateElements", arg |-> "null", ran |-> TRUE]
    /\ PageCleared
    /\ EngineCleared

(***************************************************************************)
(* The tint of the display mode under selection changes (SpecOps).         *)
(***************************************************************************)
\* in the objects of vs, the objects that are not engine-selected carry the
\* gray tint exactly if mode is 'wireframe'
TintFollowsMode(vs, mode) ==
    \A k \in Range(sceneKeys[viewerRef]) :
        ~vs.objects[viewerRef][k].selected =>
            ((vs.objects[viewerRef][k].colorize = GrayColor) <=> (mode = "wireframe"))

\* setDisplayMode has just run with the mode lastCall.arg
ModeJustSet == lastCall.op = "setDisplayMode" /\ lastCall.ran

\* C33: under the mode of the last setDisplayMode call, every object that
\* is not engine-selected is gray exactly in 'wireframe', also after a
\* selectElements call that follows the mode switch.
C33_TintIffWireframe ==
    ModeJustSet =>
        \A op \in CallsOf("selectElements") :
            TintFollowsMode(SelectElementsOp(Cur, op.ids), lastCall.arg)

\* what the code keeps: directly after setDisplayMode the tint follows the mode
C33_TintAfterModeCall == ModeJustSet => TintFollowsMode(Cur, lastCall.arg)

(***************************************************************************)
(* The primary selection of the page (SpecSelection).                      *)
(***************************************************************************)
\* C35: selectedElementId is null exactly when selectedElementIds is empty,
\* and otherwise it is one of the ids of selectedElementIds.
C35_PrimaryInSelection ==
    /\ (selectedElementId = NoElement) <=> (selectedElementIds = <<>>)
    /\ selectedElementId # NoElement => Includes(selectedElementIds, selectedElementId)

\* a second element was added with the modifier: the primary selection is
\* the element added last, not the first of the list
C35_Witness ==
    /\ Len(selectedElementIds) = 2
    /\ selectedElementId = selectedElementIds[2]
    /\ selectedElementIds[1] # selectedElementIds[2]

(***************************************************************************)
(* What the operations other than selectElements leave alone (SpecReset).  *)
(***************************************************************************)
\* the calls of the table that are not selectElements
NonSelectCalls ==
    (OpCalls \ CallsOf("selectElements"))
        \cup {[name |-> "fitToView", ids |-> <<>>, arg |-> "none"]}

\* the ledger, the previously-selected list and the engine-selected flags
\* are the same in vs and in the current state
SelectionStateKept(vs) ==
    /\ vs.ledger = originalColors
    /\ vs.prev = previouslySelectedEntities
    /\ \A k \in Range(sceneKeys[viewerRef]) :
          vs.objects[viewerRef][k].selected = Obj(k).selected

\* C36: hideElements, showElements, isolateElements, setXrayMode,
\* setDisplayMode and fitToView leave every ledger record, the
\* previously-selected list and every engine-selected flag as they were,
\* and handleHide and handleIsolate do nothing at all, no assignment and
\* no engine call, when the selection is empty.
C36_Frame ==
    /\ [](\A op \in NonSelectCalls : SelectionStateKept(ApplyOp(Cur, op)))
    /\ [][(ToolbarHide \/ ToolbarIsolate) => selectedElementIds # <<>>]_vars

\* hideElements has run on a selected object: it is hidden, still
\* engine-selected, and its record and its handle are where they were
C36_Witness ==
    /\ lastCall.op = "hideElements"
    /\ KeyA \in DOMAIN originalColors
    /\ <<viewerRef, KeyA>> \in Range(previouslySelectedEntities)
    /\ Obj(KeyA).selected
    /\ ~Obj(KeyA).visible

(***************************************************************************)
(* The lookups of the operations compared (SpecHidden).                    *)
(***************************************************************************)
\* the handles selectElements, hideElements and showElements address for
\* the ids of hiddenElementIds
ChainHandles == Range(ResolveAll(viewerRef, hiddenElementIds))

\* the handles isolateElements addresses for the same ids
IsolateHandles == Range(ResolveComposite(viewerRef, hiddenElementIds))

\* the handles the visibility effect hides for the same ids
EffectHandles == Range(PartitionByHidden(viewerRef, LiveKeys, TRUE))

\* C37: for the ids of a list, isolateElements and the visibility effect
\* address the same handles as selectElements, hideElements and
\* showElements do with the composite-key, bare-key, suffix chain.
C37_SameResolution ==
    /\ IsolateHandles = ChainHandles
    /\ EffectHandles = ChainHandles

\* the three lookups agree on lists whose ids all have an object under the
\* composite key of the current model
C37_SameResolutionComposite ==
    (\A i \in 1..Len(hiddenElementIds) :
        HasKey(LiveKeys, CompositeKey(ModelId, hiddenElementIds[i])))
    => C37_SameResolution

(***************************************************************************)
(* The ledger and the previously-selected list (Spec).                     *)
(***************************************************************************)
\* C38: after every selectElements call the ledger has a record for the id
\* of each handle of the previously-selected list and for nothing else.
C38_LedgerKeysAreSelected ==
    DOMAIN originalColors =
        {EntityId(previouslySelectedEntities[i]) :
            i \in 1..Len(previouslySelectedEntities)}

\* the page selected A and B through a group, then selectElements(['C'])
\* was called on the table: the records of A and B are gone, C has one
C38_Witness ==
    /\ selectedElementIds = <<ElA, ElB>>
    /\ dirty = {}
    /\ lastCall = [op |-> "selectElements", arg |-> "ids", ran |-> TRUE]
    /\ previouslySelectedEntities = <<<<viewerRef, KeyC>>>>
    /\ DOMAIN originalColors = {KeyC}

(***************************************************************************)
(* SpecRoundTrip: canvas picks on models whose objects all carry the       *)
(* composite key of the model.                                             *)
(***************************************************************************)
\* `${modelId}#${elementId}` for element ids without '#', the empty one
\* included
RoundTripKeys ==
    {CompositeKey(ModelId, id) : id \in KnownElements \cup {ElD, <<>>}}

\* the registries of one to MaxKeys such objects, in every key order
RoundTripScenes ==
    {q \in SeqsUpTo(RoundTripKeys, MaxKeys) :
        /\ q # <<>>
        /\ \A i, j \in 1..Len(q) : q[i] = q[j] => i = j}

InitRoundTrip ==
    \E keys \in RoundTripScenes :
        LoadedInit(keys, {FullCaps("array")}, {[k \in Range(keys) |-> NullColor]})

NextRoundTrip ==
    \/ KeyDown
    \/ KeyUp
    \/ \E r \in RunIds, ctrl \in BOOLEAN : CanvasMouseDown(r, ctrl)
    \/ \E r \in RunIds, hit \in RoundTripKeys \cup {NoHit} : Picked(r, hit)
    \/ RunEffects

SpecRoundTrip == InitRoundTrip /\ [][NextRoundTrip]_vars

\* C39: when every live key is the composite key of the model and an
\* element id without '#', the element id the picked handler derives from
\* the key of an object is resolved by selectElements to that object and to
\* no other; a pick without the modifier that the page accepts leaves
\* exactly the picked object in the previously-selected list.
C39_PickResolveRoundTrip ==
    /\ [](\A k \in Range(LiveKeys) :
            /\ ResolveEntity(LiveKeys, ModelId, PickedElementId(k)) = <<k>>
            /\ SelectElementsOp(Cur, <<PickedElementId(k)>>).prev
                   = <<<<viewerRef, k>>>>)
    /\ [][\A r \in RunIds, k \in Range(LiveKeys) :
            (/\ Picked(r, k)
             /\ ~isCtrlPressed[r]
             /\ ~ElementSelectRejected(PickedElementId(k)))
            => previouslySelectedEntities' = <<<<viewerRef, k>>>>]_vars

\* the object of B was picked: the page selected element B and the engine
\* selected the object under 'm1#B'
C39_Witness ==
    /\ selectedElementId = ElB
    /\ previouslySelectedEntities = <<<<viewerRef, CompositeKey(ModelId, ElB)>>>>
    /\ Obj(CompositeKey(ModelId, ElB)).selected
    /\ lastCall.op = "selectElements"

=============================================================================
